---- MODULE Spec2Model ----
(***************************************************************************)
(* Mutation builders of raydb (builders.py) over the storage engine.       *)
(*                                                                         *)
(* The engine (raydb._raydb.Database) is native code outside the Python   *)
(* sources; it is modelled from its interface: a store of nodes, node     *)
(* properties, edges and edge properties, with at most one active          *)
(* transaction.  begin takes a snapshot, rollback restores it and ends     *)
(* the transaction (also when it reports an error), commit ends the        *)
(* transaction keeping the writes.  Every engine call may raise; a call    *)
(* that raises has no effect on the store.                                 *)
(*                                                                         *)
(* Each builder is a small state machine: one action per engine call (or   *)
(* per validation step), pc holding the position inside the handler.  The  *)
(* records of an insert and the fields of a record are drawn one at a      *)
(* time as the for loops reach them.                                       *)
(***************************************************************************)
EXTENDS Integers, Sequences, FiniteSets, TLC

\* ------------------------------------------------------------------ bounds
MaxId == 2        \* node ids the engine hands out: 1..MaxId
MaxBatch == MaxId \* records of one values_many call (each record takes an id)
MaxFields == 2    \* fields supplied to one call (over all its records)
MaxEdges == 1     \* edges in the store
MaxSteps == 2     \* steps appended to one traversal builder
MaxDepth == 2     \* the largest max_depth given to a path builder

\* ------------------------------------------------------------ Python values
\* A Python value: its type and its text.  None is the null value.
None == [ty |-> "none", s |-> ""]
I7 == [ty |-> "int", s |-> "7"]
SA == [ty |-> "str", s |-> "a"]
Values == {None, I7, SA}

NumericText == {"7"}

\* an absent Optional[int] (where_id is None) and an absent Optional[str]
NoId == 0
NoKey == "<None>"

\* ------------------------------------------------------------------ schema
\* user = node type with key_fn "user:<selector>", props name/age/emb;
\* knows = edge type with props since/weight.
Selectors == {"a", "b"}
key_fn(sel) == "user:" \o sel
Keys == {key_fn(s) : s \in Selectors}

NodePropTypes == [name |-> "string", age |-> "int", emb |-> "vector"]
EdgePropTypes == [since |-> "int", weight |-> "float"]
NodeFieldNames == {"name", "age", "emb", "zz"}
EdgeFieldNames == {"since", "weight", "zz"}
KnowsId == 1

\* dict.get(prop_name): the declared type, or "" for an undeclared name
props_get(types, name) == IF name \in DOMAIN types THEN types[name] ELSE ""

\* ------------------------------------------------------------- PropValue
PropValue_null == [tag |-> "null", val |-> ""]

PyStr(v) == v.s
PyIntOk(v) == v.ty = "int" \/ v.s \in NumericText
PyFloat(v) == v.s \o ".0"

to_prop_value(type, value) ==
    IF value = None THEN [ok |-> TRUE, pv |-> PropValue_null, err |-> ""]
    ELSE IF type = "string" THEN [ok |-> TRUE, pv |-> [tag |-> "string", val |-> PyStr(value)], err |-> ""]
    ELSE IF type = "int" THEN
        IF PyIntOk(value) THEN [ok |-> TRUE, pv |-> [tag |-> "int", val |-> value.s], err |-> ""]
        ELSE [ok |-> FALSE, pv |-> PropValue_null, err |-> "ValueError:int"]
    ELSE IF type = "float" THEN
        IF PyIntOk(value) THEN [ok |-> TRUE, pv |-> [tag |-> "float", val |-> PyFloat(value)], err |-> ""]
        ELSE [ok |-> FALSE, pv |-> PropValue_null, err |-> "ValueError:float"]
    ELSE IF type = "bool" THEN [ok |-> TRUE, pv |-> [tag |-> "bool", val |-> "True"], err |-> ""]
    ELSE IF type = "vector" THEN [ok |-> FALSE, pv |-> PropValue_null, err |-> "ValueError:vector"]
    ELSE [ok |-> FALSE, pv |-> PropValue_null, err |-> "ValueError:unknown"]

\* ------------------------------------------------------------------ engine
EmptyFn == [x \in {} |-> None]
EmptyStore == [nodes |-> EmptyFn, nprops |-> EmptyFn, edges |-> {}, eprops |-> EmptyFn]

FnSet(f, k, v) == [x \in DOMAIN f \cup {k} |-> IF x = k THEN v ELSE f[x]]
FnDel(f, ks) == [x \in DOMAIN f \ ks |-> f[x]]
Range(q) == {q[i] : i \in DOMAIN q}

\* getNodeByKey(key) -> id | absent
get_node_by_key(st, key) ==
    IF \E i \in DOMAIN st.nodes : st.nodes[i] = key
    THEN CHOOSE i \in DOMAIN st.nodes : st.nodes[i] = key
    ELSE NoId

\* createNode(fullKey) -> id; a duplicate key is a Conflict (see Insert_item)
create_node(st, id, key) == [st EXCEPT !.nodes = FnSet(@, id, key)]

\* setNodeProp / deleteNodeProp: a write to a node that does not exist writes nothing
set_node_prop(st, id, k, pv) ==
    IF id \in DOMAIN st.nodes THEN [st EXCEPT !.nprops = FnSet(@, <<id, k>>, pv)] ELSE st
delete_node_prop(st, id, k) == [st EXCEPT !.nprops = FnDel(@, {<<id, k>>})]

\* deleteNode(id) -> bool: the node, its properties and its edges go
delete_node(st, id) ==
    LET gone == {e \in st.edges : e[1] = id \/ e[3] = id} IN
    [nodes |-> FnDel(st.nodes, {id}),
     nprops |-> FnDel(st.nprops, {x \in DOMAIN st.nprops : x[1] = id}),
     edges |-> st.edges \ gone,
     eprops |-> FnDel(st.eprops, {x \in DOMAIN st.eprops : <<x[1], x[2], x[3]>> \in gone})]

\* addEdge / deleteEdge(src, etypeId, dst): an edge needs both end nodes
add_edge(st, s, et, d) ==
    IF s \in DOMAIN st.nodes /\ d \in DOMAIN st.nodes
    THEN [st EXCEPT !.edges = @ \cup {<<s, et, d>>}] ELSE st
delete_edge(st, s, et, d) ==
    [st EXCEPT !.edges = @ \ {<<s, et, d>>},
               !.eprops = FnDel(@, {x \in DOMAIN @ : <<x[1], x[2], x[3]>> = <<s, et, d>>})]

\* setEdgeProp / deleteEdgeProp(src, etypeId, dst, propKeyId[, value])
set_edge_prop(st, s, et, d, k, pv) ==
    IF <<s, et, d>> \in st.edges THEN [st EXCEPT !.eprops = FnSet(@, <<s, et, d, k>>, pv)] ELSE st
delete_edge_prop(st, s, et, d, k) == [st EXCEPT !.eprops = FnDel(@, {<<s, et, d, k>>})]

\* ------------------------------------------------------------------- state
VARIABLES
    store,     \* engine: what reads see (nodes, nprops, edges, eprops)
    nextId,    \* engine: the next node id (ids are not reused)
    txOpen,    \* engine: a transaction is active
    snap,      \* engine: the store when the active transaction began
    pc,        \* position inside the running builder call; "done" when it has ended, "idle" between calls
    op,        \* the builder call running, or the last one
    single,    \* InsertExecutor._is_single
    sel,       \* where(id=..., key=...) of update / delete
    target,    \* node_id / resolved_node_id / node_ref.id
    ends,      \* <<src.id, dst.id>> of link / unlink / edge update
    keysIn,    \* the 'key' arguments of the records reached so far, in order
    item,      \* the fields of the current dict reached so far
    results,   \* InsertExecutor.returning: results
    err,       \* the exception being handled by the except clause
    out,       \* how the last call ended: returned value or raised error
    calls,     \* engine calls and resolver calls issued by the current call
    pre,       \* the store when the current call started
    prevDel    \* key of the node removed by the previous call, if it was such a delete

\* the traversal builder (traversal.py) and the last terminal operation on it
VARIABLES
    parallel,      \* engine: the edges of the store that exist twice (parallel edges)
    tpc,           \* "none": no traversal builder; "built": db.from_(...) has made one
    start_nodes,   \* TraversalBuilder._start_nodes
    steps,         \* TraversalBuilder._steps
    node_filter,   \* TraversalBuilder._node_filter
    prop_strategy, \* TraversalBuilder._prop_strategy
    tout,          \* the last terminal operation and what it returned
    tcalls,        \* engine and resolver calls issued for the builder: by its methods, then by its last terminal operation
    tseen,         \* the current_ids the last executions on this builder ended with, latest first; <<>> before the first
    res,           \* the TraversalResult nodes() has built from the builder (it shares _steps and _start_nodes)
    pq             \* the PathFindingBuilder, the position inside its running query and how the last one ended

travVars == <<parallel, tpc, start_nodes, steps, node_filter, prop_strategy, tout, tcalls, tseen,
              res, pq>>

vars == <<store, nextId, txOpen, snap, pc, op, single, sel, target, ends,
          keysIn, item, results, err, out, calls, pre, prevDel, travVars>>
traversal == <<parallel, tpc, start_nodes, steps, node_filter, prop_strategy, tout, tcalls,
               tseen, res>>
mutation == <<nextId, txOpen, snap, pc, op, single, sel, target, ends,
              keysIn, item, results, err, out, calls, pre, prevDel>>
engine == <<store, nextId, txOpen, snap>>

CallNames == {"begin", "commit", "commit_ok", "rollback", "create_node", "set_node_prop",
              "delete_node_prop", "delete_node", "get_node_by_key", "add_edge",
              "delete_edge", "set_edge_prop", "delete_edge_prop",
              "resolve_prop_key_id", "resolve_etype_id"}
NoCalls == [c \in CallNames |-> 0]
Bump(c, name) == [c EXCEPT ![name] = @ + 1]

NoOut == [kind |-> "none", err |-> "", shape |-> "none", b |-> FALSE, hs |-> <<>>]
Raised(e) == [kind |-> "raised", err |-> e, shape |-> "none", b |-> FALSE, hs |-> <<>>]
ReturnNone == [kind |-> "returned", err |-> "", shape |-> "none", b |-> FALSE, hs |-> <<>>]
ReturnBool(b) == [kind |-> "returned", err |-> "", shape |-> "bool", b |-> b, hs |-> <<>>]
ReturnHandle(h) == [kind |-> "returned", err |-> "", shape |-> "handle", b |-> FALSE, hs |-> <<h>>]
ReturnList(hs) == [kind |-> "returned", err |-> "", shape |-> "list", b |-> FALSE, hs |-> hs]

NodeRef(id, key, props) == [id |-> id, key |-> key, props |-> props]

\* ------------------------------------------------- traversal builder state
\* PropLoadStrategy(load_all, prop_names); has_names is FALSE when prop_names is None
Strategy_none == [load_all |-> FALSE, has_names |-> FALSE, names |-> {}]
Strategy_all == [load_all |-> TRUE, has_names |-> FALSE, names |-> {}]
Strategy_only(names) == [load_all |-> FALSE, has_names |-> TRUE, names |-> names]

\* PropLoadStrategy.should_load / needs_any_props
should_load(strategy, prop_name) ==
    IF strategy.load_all THEN TRUE
    ELSE IF strategy.has_names THEN prop_name \in strategy.names
    ELSE FALSE
\* a needs_any_props that takes any given name set, also the empty one, as
\* properties to load
needs_any_props_named(strategy) ==
    strategy.load_all \/ strategy.has_names
needs_any_props(strategy) ==
    strategy.load_all \/ (strategy.has_names /\ Cardinality(strategy.names) > 0)

\* _node_filter is None
NoFilter == "<None>"

TCallNames == {"traverse_out", "traverse_in", "traverse_out_with_keys", "traverse_in_with_keys",
               "get_node_def", "get_node_key", "get_node_prop", "resolve_prop_key_id"}
NoTCalls == [c \in TCallNames |-> 0]

\* what a terminal operation gave back: handles (to_list, first, iteration),
\* identifiers (ids), keys (keys) or a number
\* (count), or the error it raised; st is the store the operation read
NoTOut == [kind |-> "none", op |-> "none", hs |-> <<>>, ids |-> <<>>, ks |-> <<>>, n |-> 0,
           err |-> "", st |-> EmptyStore]

\* TraversalResult.__init__: the predicate and the strategy are the builder's
\* at the time of nodes(); made is FALSE while there is no result
NoRes == [made |-> FALSE, node_filter |-> NoFilter, prop_strategy |-> Strategy_none]

\* PathFindingBuilder.__init__ and the query run on it.  pc: "none" no builder,
\* "built", then the position inside find / find_weighted / exists, "done"
\* when it has ended.  found, path, total_weight: the engine's answer; nodes:
\* the handles built so far; out: what the caller got; calls: the engine and
\* resolver calls the query has issued.
PCallNames == {"resolve_etype_id", "find_path_bfs", "find_path_dijkstra", "has_path",
               "get_node_def", "get_node_key", "resolve_prop_key_id", "get_node_prop"}
NoPCalls == [c \in PCallNames |-> 0]
NoDepth == 0
NoPOut == [kind |-> "none", err |-> "", shape |-> "none", b |-> FALSE, nodes |-> <<>>,
           found |-> FALSE, total_weight |-> 0]
NoPath ==
    [pc |-> "none", op |-> "none", source |-> NoId, target |-> NoId, edge_type |-> NoId,
     max_depth |-> NoDepth, direction |-> "out", load_props |-> FALSE,
     found |-> FALSE, path |-> <<>>, total_weight |-> 0, nodes |-> <<>>,
     out |-> NoPOut, calls |-> NoPCalls]

\* no traversal builder, traversal result or path builder has been made
NoBuilder ==
    /\ tpc = "none"
    /\ start_nodes = <<>>
    /\ steps = <<>>
    /\ node_filter = NoFilter
    /\ prop_strategy = Strategy_none
    /\ tout = NoTOut
    /\ tcalls = NoTCalls
    /\ tseen = <<>>
    /\ res = NoRes
    /\ pq = NoPath

Init ==
    /\ parallel = {}
    /\ NoBuilder
    /\ store = EmptyStore
    /\ nextId = 1
    /\ txOpen = FALSE
    /\ snap = EmptyStore
    /\ pc = "idle"
    /\ op = "none"
    /\ single = FALSE
    /\ sel = [id |-> NoId, key |-> NoKey]
    /\ target = NoId
    /\ ends = <<NoId, NoId>>
    /\ keysIn = <<>>
    /\ item = EmptyFn
    /\ results = <<>>
    /\ err = ""
    /\ out = NoOut
    /\ calls = NoCalls
    /\ pre = EmptyStore
    /\ prevDel = NoKey

\* --------------------------------------------------------- shared pieces
\* What every call sets up before its first statement.
Enter(name, sg, sl, tg, en) ==
    /\ op' = name
    /\ single' = sg
    /\ sel' = sl
    /\ target' = tg
    /\ ends' = en
    /\ keysIn' = <<>>
    /\ item' = EmptyFn
    /\ results' = <<>>
    /\ err' = ""
    /\ pre' = store
    /\ UNCHANGED prevDel

\* The call is over and the caller moves on: the executor and its locals are
\* dropped.  prevDel remembers the key a successful delete has just removed.
Forget ==
    /\ pc = "done"
    /\ pc' = "idle"
    /\ op' = "none"
    /\ single' = FALSE
    /\ sel' = [id |-> NoId, key |-> NoKey]
    /\ target' = NoId
    /\ ends' = <<NoId, NoId>>
    /\ keysIn' = <<>>
    /\ item' = EmptyFn
    /\ results' = <<>>
    /\ err' = ""
    /\ out' = NoOut
    /\ calls' = NoCalls
    /\ pre' = EmptyStore
    /\ prevDel' = IF op = "delete" /\ out.kind = "returned" /\ out.b
                     /\ target \in DOMAIN pre.nodes /\ target \notin DOMAIN store.nodes
                  THEN pre.nodes[target] ELSE NoKey
    /\ UNCHANGED engine
    /\ UNCHANGED travVars

\* the fields the current call has reached so far, over all its records
RECURSIVE FieldCount(_)
FieldCount(rs) == IF rs = <<>> THEN 0 ELSE Cardinality(DOMAIN Head(rs).props) + FieldCount(Tail(rs))
MoreFields == FieldCount(results) + Cardinality(DOMAIN item) < MaxFields

Faults == {"ok", "resolve", "call"}

\* (mutant) db.begin() as the first statement of the try block: when it
\* raises, the except clause runs
db_begin_in_try(c, f, nextpc) ==
    /\ calls' = Bump(c, "begin")
    /\ IF f \/ txOpen
       THEN /\ pc' = "except"
            /\ out' = NoOut
            /\ UNCHANGED engine
       ELSE /\ pc' = nextpc
            /\ out' = NoOut
            /\ txOpen' = TRUE
            /\ snap' = store
            /\ UNCHANGED <<store, nextId>>

\* db.begin() as the statement before the try block: when it raises, the
\* exception leaves the call (no handler is active yet).  c: the calls so far.
db_begin(c, f, nextpc) ==
    /\ calls' = Bump(c, "begin")
    /\ IF f \/ txOpen
       THEN /\ pc' = "done"
            /\ out' = Raised("E:begin")
            /\ UNCHANGED engine
       ELSE /\ pc' = nextpc
            /\ out' = NoOut
            /\ txOpen' = TRUE
            /\ snap' = store
            /\ UNCHANGED <<store, nextId>>

\* raise inside the try block: control goes to the except clause
Raise(e) == pc' = "except" /\ err' = e

\* (mutant) rollback in a finally clause: it also runs after a successful commit
db_commit_finally(f, ret) ==
    IF f
    THEN /\ calls' = Bump(calls, "commit")
         /\ Raise("E:commit")
         /\ UNCHANGED <<engine, out>>
    ELSE /\ calls' = Bump(Bump(Bump(calls, "commit"), "commit_ok"), "rollback")
         /\ txOpen' = FALSE
         /\ snap' = EmptyStore
         /\ pc' = "done"
         /\ out' = ret
         /\ UNCHANGED <<store, nextId, err>>

\* db.commit() as the last statement of the try block, then the return
db_commit(f, ret) ==
    IF f
    THEN /\ calls' = Bump(calls, "commit")
         /\ Raise("E:commit")
         /\ UNCHANGED <<engine, out>>
    ELSE /\ calls' = Bump(Bump(calls, "commit"), "commit_ok")
         /\ txOpen' = FALSE
         /\ snap' = EmptyStore
         /\ pc' = "done"
         /\ out' = ret
         /\ UNCHANGED <<store, nextId, err>>

\* (mutant) the except clause re-raises without calling rollback
except_no_rollback(f) ==
    /\ pc' = "done"
    /\ out' = Raised(err)
    /\ UNCHANGED <<engine, calls, op, single, sel, target, ends, keysIn, item, results, err,
                   pre, prevDel>>

\* except Exception: self._db.rollback(); raise
\* A rollback that raises replaces the exception being handled.
except_rollback(f) ==
    /\ calls' = Bump(calls, "rollback")
    /\ store' = IF txOpen THEN snap ELSE store
    /\ txOpen' = FALSE
    /\ snap' = EmptyStore
    /\ pc' = "done"
    /\ out' = IF f THEN Raised("E:rollback") ELSE Raised(err)
    /\ UNCHANGED <<nextId, op, single, sel, target, ends, keysIn, item, results, err,
                   pre, prevDel>>

\* ------------------------------------------------------------------ insert
\* InsertBuilder.values (single dict) / values_many (list), then
\* InsertExecutor.returning up to db.begin()
Insert_begin(sg, f) ==
    /\ pc = "idle"
    /\ Enter("insert", sg, [id |-> NoId, key |-> NoKey], NoId, <<NoId, NoId>>)
    /\ db_begin(NoCalls, f, "ins_loop")
    /\ UNCHANGED travVars

\* (mutant) the selector is used as the key without formatting
full_key_unformatted(key_arg) == key_arg

\* full_key = self._node_def.key_fn(key_arg)
full_key(key_arg) == key_fn(key_arg)

\* (mutant) the prop_def test is missing: an undeclared name is encoded
insert_skips_null_only(types, name, value) == value = None

\* (mutant) the None test is missing: a None value is encoded and written
insert_skips_undeclared_only(types, name, value) == props_get(types, name) = ""

\* the fields insert skips: a None value, or a name the node type does not declare
insert_skips(types, name, value) == value = None \/ props_get(types, name) = ""

\* for item in self._data: pop the key, create the node
Insert_item(key_arg, f) ==
    /\ pc = "ins_loop"
    /\ Len(keysIn) < (IF single THEN 1 ELSE MaxBatch)
    /\ key_arg # NoKey => nextId <= MaxId
    /\ keysIn' = Append(keysIn, key_arg)
    /\ item' = EmptyFn
    /\ IF key_arg = NoKey
       THEN /\ Raise("ValueError:key")
            /\ UNCHANGED <<engine, target, calls>>
       ELSE /\ calls' = Bump(calls, "create_node")
            /\ IF f THEN Raise("E:create_node") /\ UNCHANGED <<engine, target>>
               ELSE IF get_node_by_key(store, full_key(key_arg)) # NoId
               THEN Raise("Conflict") /\ UNCHANGED <<engine, target>>
               ELSE /\ store' = create_node(store, nextId, full_key(key_arg))
                    /\ nextId' = nextId + 1
                    /\ target' = nextId
                    /\ pc' = "ins_props"
                    /\ UNCHANGED <<txOpen, snap, err>>
    /\ UNCHANGED <<op, single, sel, ends, results, out, pre, prevDel>>
    /\ UNCHANGED travVars

\* for prop_name, value in item.items(): one field of the current record
Insert_field(name, value, f) ==
    /\ pc = "ins_props"
    /\ name \in NodeFieldNames \ DOMAIN item
    /\ MoreFields
    /\ item' = FnSet(item, name, value)
    /\ IF insert_skips(NodePropTypes, name, value)
       THEN UNCHANGED <<engine, pc, err, calls>>
       ELSE LET r == to_prop_value(props_get(NodePropTypes, name), value) IN
            IF f = "resolve"
            THEN /\ calls' = Bump(calls, "resolve_prop_key_id")
                 /\ Raise("E:resolve_prop_key_id")
                 /\ UNCHANGED engine
            ELSE IF ~r.ok
            THEN /\ calls' = Bump(calls, "resolve_prop_key_id")
                 /\ Raise(r.err)
                 /\ UNCHANGED engine
            ELSE /\ calls' = Bump(Bump(calls, "resolve_prop_key_id"), "set_node_prop")
                 /\ IF f = "call"
                    THEN Raise("E:set_node_prop") /\ UNCHANGED engine
                    ELSE /\ store' = set_node_prop(store, target, name, r.pv)
                         /\ UNCHANGED <<nextId, txOpen, snap, pc, err>>
    /\ UNCHANGED <<op, single, sel, target, ends, keysIn, results, out, pre, prevDel>>
    /\ UNCHANGED travVars

\* results.append(NodeRef(id=node_id, key=full_key, node_def=..., props=item))
Insert_append ==
    /\ pc = "ins_props"
    /\ results' = Append(results, NodeRef(target, full_key(keysIn[Len(keysIn)]), item))
    /\ pc' = "ins_loop"
    /\ UNCHANGED <<engine, op, single, sel, target, ends, keysIn, item, err, out, calls,
                   pre, prevDel>>
    /\ UNCHANGED travVars

\* returning() / execute() called once more on the same InsertExecutor: the
\* records of self._data reached by the earlier call (keysIn) have had their
\* 'key' popped, the others are as the caller built them
InsertAgain_begin(f) ==
    /\ pc = "done" /\ op = "insert"
    /\ op' = "insert_again"
    /\ item' = EmptyFn
    /\ results' = <<>>
    /\ err' = ""
    /\ pre' = store
    /\ db_begin(NoCalls, f, "again_loop")
    /\ UNCHANGED <<single, sel, target, ends, keysIn, prevDel>>
    /\ UNCHANGED travVars

\* key_arg = item.pop("key", None) on the first record: None when the earlier
\* call has reached it; otherwise the call runs as the first one did
InsertAgain_item ==
    /\ pc = "again_loop"
    /\ IF keysIn # <<>>
       THEN Raise("ValueError:key") /\ UNCHANGED op
       ELSE pc' = "ins_loop" /\ op' = "insert" /\ UNCHANGED err
    /\ UNCHANGED <<engine, single, sel, target, ends, keysIn, item, results, out, calls,
                   pre, prevDel>>
    /\ UNCHANGED travVars

InsertAgain_except(f) ==
    /\ pc = "except"
    /\ op = "insert_again"
    /\ except_rollback(f)
    /\ UNCHANGED travVars

\* (mutant) a one-element result is unwrapped whatever the input was
returning_value_unwrap(sg, rs) == IF Len(rs) = 1 THEN ReturnHandle(rs[1]) ELSE ReturnList(rs)

\* return results[0] if self._is_single else results
returning_value(sg, rs) == IF sg THEN ReturnHandle(rs[1]) ELSE ReturnList(rs)

\* the loop is over: self._db.commit() and the return
Insert_commit(f) ==
    /\ pc = "ins_loop"
    /\ single => Len(keysIn) = 1
    /\ db_commit(f, returning_value(single, results))
    /\ UNCHANGED <<op, single, sel, target, ends, keysIn, item, results, pre, prevDel>>
    /\ UNCHANGED travVars

Insert_except(f) ==
    /\ pc = "except"
    /\ op = "insert"
    /\ except_rollback(f)
    /\ UNCHANGED travVars

\* ------------------------------------------------------------------ update
\* "if self._where_key": None and the empty string are both false
truthy(key) == key # NoKey /\ key # ""

\* (mutant) a key, when given, is looked up whether or not an id was given
needs_lookup_for_any_key(wid, wkey) == truthy(wkey)

\* the lookup of update / delete is made only when no id was given
needs_lookup(wid, wkey) == wid = NoId /\ truthy(wkey)

\* node_id = self._where_id; if node_id is None and self._where_key: node_id = get_node_by_key(...)
resolve_where(st, wid, wkey) ==
    IF needs_lookup(wid, wkey) THEN get_node_by_key(st, wkey) ELSE wid

\* neither id nor key was given
no_where(wid, wkey) == wid = NoId /\ wkey = NoKey

StartFaults == {"ok", "lookup", "begin"}
WhereIds == {NoId} \cup (1 .. MaxId)
WhereKeys == {NoKey, ""} \cup Keys

\* UpdateBuilder.set(...).where(id=, key=).execute() up to db.begin()
Update_begin(wid, wkey, f) ==
    /\ pc = "idle"
    /\ LET id == resolve_where(store, wid, wkey)
           c == IF needs_lookup(wid, wkey) THEN Bump(NoCalls, "get_node_by_key") ELSE NoCalls
       IN
       /\ Enter("update", FALSE, [id |-> wid, key |-> wkey], id, <<NoId, NoId>>)
       /\ IF no_where(wid, wkey)
          THEN /\ pc' = "done" /\ out' = Raised("ValueError:where")
               /\ calls' = NoCalls /\ UNCHANGED engine
          ELSE IF needs_lookup(wid, wkey) /\ f = "lookup"
          THEN /\ pc' = "done" /\ out' = Raised("E:get_node_by_key")
               /\ calls' = c /\ UNCHANGED engine
          ELSE IF id = NoId
          THEN /\ pc' = "done" /\ out' = Raised("ValueError:notfound")
               /\ calls' = c /\ UNCHANGED engine
          ELSE db_begin(c, f = "begin", "upd_loop")
    /\ UNCHANGED travVars

\* (mutant) update treats None as insert does not: it writes it as a value
update_never_deletes(value) == FALSE

\* one field of update / update-by-handle / edge update: a declared name is
\* deleted when its value is None and written otherwise
update_deletes(value) == value = None

\* for prop_name, value in self._data.items(): one field of a node update
node_update_field(name, value, f) ==
    /\ name \in NodeFieldNames \ DOMAIN item
    /\ MoreFields
    /\ item' = FnSet(item, name, value)
    /\ IF props_get(NodePropTypes, name) = ""
       THEN UNCHANGED <<engine, pc, err, calls>>
       ELSE IF f = "resolve"
       THEN /\ calls' = Bump(calls, "resolve_prop_key_id")
            /\ Raise("E:resolve_prop_key_id")
            /\ UNCHANGED engine
       ELSE IF update_deletes(value)
       THEN /\ calls' = Bump(Bump(calls, "resolve_prop_key_id"), "delete_node_prop")
            /\ IF f = "call"
               THEN Raise("E:delete_node_prop") /\ UNCHANGED engine
               ELSE /\ store' = delete_node_prop(store, target, name)
                    /\ UNCHANGED <<nextId, txOpen, snap, pc, err>>
       ELSE LET r == to_prop_value(props_get(NodePropTypes, name), value) IN
            IF ~r.ok
            THEN /\ calls' = Bump(calls, "resolve_prop_key_id")
                 /\ Raise(r.err)
                 /\ UNCHANGED engine
            ELSE /\ calls' = Bump(Bump(calls, "resolve_prop_key_id"), "set_node_prop")
                 /\ IF f = "call"
                    THEN Raise("E:set_node_prop") /\ UNCHANGED engine
                    ELSE /\ store' = set_node_prop(store, target, name, r.pv)
                         /\ UNCHANGED <<nextId, txOpen, snap, pc, err>>
    /\ UNCHANGED <<op, single, sel, target, ends, keysIn, results, out, pre, prevDel>>

Update_field(name, value, f) ==
    /\ pc = "upd_loop"
    /\ op = "update"
    /\ node_update_field(name, value, f)
    /\ UNCHANGED travVars

Update_commit(f) ==
    /\ pc = "upd_loop"
    /\ op = "update"
    /\ db_commit(f, ReturnNone)
    /\ UNCHANGED <<op, single, sel, target, ends, keysIn, item, results, pre, prevDel>>
    /\ UNCHANGED travVars

Update_except(f) ==
    /\ pc = "except"
    /\ op = "update"
    /\ except_rollback(f)
    /\ UNCHANGED travVars

\* ------------------------------------------------------- update by handle
\* the handles a caller can hold: nodes created at some time
Handles == 1 .. (nextId - 1)

\* UpdateByRefBuilder.set(...).execute() up to db.begin()
UpdateByRef_begin(h, f) ==
    /\ pc = "idle"
    /\ h \in Handles
    /\ Enter("update_ref", FALSE, [id |-> NoId, key |-> NoKey], h, <<NoId, NoId>>)
    /\ db_begin(NoCalls, f, "upd_loop")
    /\ UNCHANGED travVars

UpdateByRef_field(name, value, f) ==
    /\ pc = "upd_loop"
    /\ op = "update_ref"
    /\ node_update_field(name, value, f)
    /\ UNCHANGED travVars

UpdateByRef_commit(f) ==
    /\ pc = "upd_loop"
    /\ op = "update_ref"
    /\ db_commit(f, ReturnNone)
    /\ UNCHANGED <<op, single, sel, target, ends, keysIn, item, results, pre, prevDel>>
    /\ UNCHANGED travVars

UpdateByRef_except(f) ==
    /\ pc = "except"
    /\ op = "update_ref"
    /\ except_rollback(f)
    /\ UNCHANGED travVars

\* ------------------------------------------------------------------ delete
\* (mutant) delete treats an unresolved key as update does
delete_not_found_raises == Raised("ValueError:notfound")

\* if node_id is None: return False
delete_not_found == ReturnBool(FALSE)

\* DeleteBuilder.where(id=, key=).execute() up to db.begin()
Delete_begin(wid, wkey, f) ==
    /\ pc = "idle"
    /\ LET id == resolve_where(store, wid, wkey)
           c == IF needs_lookup(wid, wkey) THEN Bump(NoCalls, "get_node_by_key") ELSE NoCalls
       IN
       /\ Enter("delete", FALSE, [id |-> wid, key |-> wkey], id, <<NoId, NoId>>)
       /\ IF no_where(wid, wkey)
          THEN /\ pc' = "done" /\ out' = Raised("ValueError:where")
               /\ calls' = NoCalls /\ UNCHANGED engine
          ELSE IF needs_lookup(wid, wkey) /\ f = "lookup"
          THEN /\ pc' = "done" /\ out' = Raised("E:get_node_by_key")
               /\ calls' = c /\ UNCHANGED engine
          ELSE IF id = NoId
          THEN /\ pc' = "done" /\ out' = delete_not_found
               /\ calls' = c /\ UNCHANGED engine
          ELSE db_begin(c, f = "begin", "del_node")
    /\ UNCHANGED travVars

\* self._db.delete_node(resolved_node_id): the engine's answer is not looked at
Delete_node(f) ==
    /\ pc = "del_node"
    /\ calls' = Bump(calls, "delete_node")
    /\ IF f THEN Raise("E:delete_node") /\ UNCHANGED engine
       ELSE /\ store' = delete_node(store, target)
            /\ pc' = "del_commit"
            /\ UNCHANGED <<nextId, txOpen, snap, err>>
    /\ UNCHANGED <<op, single, sel, target, ends, keysIn, item, results, out, pre, prevDel>>
    /\ UNCHANGED travVars

\* what execute returns once delete_node and commit went through
delete_result == TRUE

Delete_commit(f) ==
    /\ pc = "del_commit"
    /\ db_commit(f, ReturnBool(delete_result))
    /\ UNCHANGED <<op, single, sel, target, ends, keysIn, item, results, pre, prevDel>>
    /\ UNCHANGED travVars

Delete_except(f) ==
    /\ pc = "except"
    /\ op = "delete"
    /\ except_rollback(f)
    /\ UNCHANGED travVars

\* -------------------------------------------------------------------- link
EdgeFaults == {"ok", "resolve", "begin"}

\* create_link up to db.begin(): etype_id = resolve_etype_id(edge_def), then begin
Link_begin(s, d, f) ==
    /\ pc = "idle"
    /\ s \in Handles /\ d \in Handles
    /\ Cardinality(store.edges \cup {<<s, KnowsId, d>>}) <= MaxEdges
    /\ Enter("link", FALSE, [id |-> NoId, key |-> NoKey], NoId, <<s, d>>)
    /\ IF f = "resolve"
       THEN /\ pc' = "done" /\ out' = Raised("E:resolve_etype_id")
            /\ calls' = Bump(NoCalls, "resolve_etype_id") /\ UNCHANGED engine
       ELSE db_begin(Bump(NoCalls, "resolve_etype_id"), f = "begin", "link_edge")
    /\ UNCHANGED travVars

\* db.add_edge(src.id, etype_id, dst.id)
Link_edge(f) ==
    /\ pc = "link_edge"
    /\ calls' = Bump(calls, "add_edge")
    /\ IF f THEN Raise("E:add_edge") /\ UNCHANGED engine
       ELSE /\ store' = add_edge(store, ends[1], KnowsId, ends[2])
            /\ pc' = "link_props"
            /\ UNCHANGED <<nextId, txOpen, snap, err>>
    /\ UNCHANGED <<op, single, sel, target, ends, keysIn, item, results, out, pre, prevDel>>
    /\ UNCHANGED travVars

\* the fields link skips: a None value, or a name the edge type does not declare
link_skips(types, name, value) == value = None \/ props_get(types, name) = ""

\* if props: for prop_name, value in props.items(): one property of the new edge
Link_field(name, value, f) ==
    /\ pc = "link_props"
    /\ name \in EdgeFieldNames \ DOMAIN item
    /\ MoreFields
    /\ item' = FnSet(item, name, value)
    /\ IF link_skips(EdgePropTypes, name, value)
       THEN UNCHANGED <<engine, pc, err, calls>>
       ELSE LET r == to_prop_value(props_get(EdgePropTypes, name), value) IN
            IF f = "resolve"
            THEN /\ calls' = Bump(calls, "resolve_prop_key_id")
                 /\ Raise("E:resolve_prop_key_id")
                 /\ UNCHANGED engine
            ELSE IF ~r.ok
            THEN /\ calls' = Bump(calls, "resolve_prop_key_id")
                 /\ Raise(r.err)
                 /\ UNCHANGED engine
            ELSE /\ calls' = Bump(Bump(calls, "resolve_prop_key_id"), "set_edge_prop")
                 /\ IF f = "call"
                    THEN Raise("E:set_edge_prop") /\ UNCHANGED engine
                    ELSE /\ store' = set_edge_prop(store, ends[1], KnowsId, ends[2], name, r.pv)
                         /\ UNCHANGED <<nextId, txOpen, snap, pc, err>>
    /\ UNCHANGED <<op, single, sel, target, ends, keysIn, results, out, pre, prevDel>>
    /\ UNCHANGED travVars

Link_commit(f) ==
    /\ pc = "link_props"
    /\ db_commit(f, ReturnNone)
    /\ UNCHANGED <<op, single, sel, target, ends, keysIn, item, results, pre, prevDel>>
    /\ UNCHANGED travVars

Link_except(f) ==
    /\ pc = "except"
    /\ op = "link"
    /\ except_rollback(f)
    /\ UNCHANGED travVars

\* ------------------------------------------------------------------ unlink
\* delete_link up to db.begin()
Unlink_begin(s, d, f) ==
    /\ pc = "idle"
    /\ s \in Handles /\ d \in Handles
    /\ Enter("unlink", FALSE, [id |-> NoId, key |-> NoKey], NoId, <<s, d>>)
    /\ IF f = "resolve"
       THEN /\ pc' = "done" /\ out' = Raised("E:resolve_etype_id")
            /\ calls' = Bump(NoCalls, "resolve_etype_id") /\ UNCHANGED engine
       ELSE db_begin(Bump(NoCalls, "resolve_etype_id"), f = "begin", "unlink_edge")
    /\ UNCHANGED travVars

\* db.delete_edge(src.id, etype_id, dst.id)
Unlink_edge(f) ==
    /\ pc = "unlink_edge"
    /\ calls' = Bump(calls, "delete_edge")
    /\ IF f THEN Raise("E:delete_edge") /\ UNCHANGED engine
       ELSE /\ store' = delete_edge(store, ends[1], KnowsId, ends[2])
            /\ pc' = "unlink_commit"
            /\ UNCHANGED <<nextId, txOpen, snap, err>>
    /\ UNCHANGED <<op, single, sel, target, ends, keysIn, item, results, out, pre, prevDel>>
    /\ UNCHANGED travVars

Unlink_commit(f) ==
    /\ pc = "unlink_commit"
    /\ db_commit(f, ReturnNone)
    /\ UNCHANGED <<op, single, sel, target, ends, keysIn, item, results, pre, prevDel>>
    /\ UNCHANGED travVars

Unlink_except(f) ==
    /\ pc = "except"
    /\ op = "unlink"
    /\ except_rollback(f)
    /\ UNCHANGED travVars

\* ------------------------------------------------------------- edge update
\* UpdateEdgeBuilder.set(...).execute() up to db.begin()
UpdateEdge_begin(s, d, f) ==
    /\ pc = "idle"
    /\ s \in Handles /\ d \in Handles
    /\ Enter("update_edge", FALSE, [id |-> NoId, key |-> NoKey], NoId, <<s, d>>)
    /\ IF f = "resolve"
       THEN /\ pc' = "done" /\ out' = Raised("E:resolve_etype_id")
            /\ calls' = Bump(NoCalls, "resolve_etype_id") /\ UNCHANGED engine
       ELSE db_begin(Bump(NoCalls, "resolve_etype_id"), f = "begin", "eupd_loop")
    /\ UNCHANGED travVars

\* for prop_name, value in self._data.items(): one field of an edge update
UpdateEdge_field(name, value, f) ==
    /\ pc = "eupd_loop"
    /\ name \in EdgeFieldNames \ DOMAIN item
    /\ MoreFields
    /\ item' = FnSet(item, name, value)
    /\ IF props_get(EdgePropTypes, name) = ""
       THEN UNCHANGED <<engine, pc, err, calls>>
       ELSE IF f = "resolve"
       THEN /\ calls' = Bump(calls, "resolve_prop_key_id")
            /\ Raise("E:resolve_prop_key_id")
            /\ UNCHANGED engine
       ELSE IF update_deletes(value)
       THEN /\ calls' = Bump(Bump(calls, "resolve_prop_key_id"), "delete_edge_prop")
            /\ IF f = "call"
               THEN Raise("E:delete_edge_prop") /\ UNCHANGED engine
               ELSE /\ store' = delete_edge_prop(store, ends[1], KnowsId, ends[2], name)
                    /\ UNCHANGED <<nextId, txOpen, snap, pc, err>>
       ELSE LET r == to_prop_value(props_get(EdgePropTypes, name), value) IN
            IF ~r.ok
            THEN /\ calls' = Bump(calls, "resolve_prop_key_id")
                 /\ Raise(r.err)
                 /\ UNCHANGED engine
            ELSE /\ calls' = Bump(Bump(calls, "resolve_prop_key_id"), "set_edge_prop")
                 /\ IF f = "call"
                    THEN Raise("E:set_edge_prop") /\ UNCHANGED engine
                    ELSE /\ store' = set_edge_prop(store, ends[1], KnowsId, ends[2], name, r.pv)
                         /\ UNCHANGED <<nextId, txOpen, snap, pc, err>>
    /\ UNCHANGED <<op, single, sel, target, ends, keysIn, results, out, pre, prevDel>>
    /\ UNCHANGED travVars

UpdateEdge_commit(f) ==
    /\ pc = "eupd_loop"
    /\ db_commit(f, ReturnNone)
    /\ UNCHANGED <<op, single, sel, target, ends, keysIn, item, results, pre, prevDel>>
    /\ UNCHANGED travVars

UpdateEdge_except(f) ==
    /\ pc = "except"
    /\ op = "update_edge"
    /\ except_rollback(f)
    /\ UNCHANGED travVars

\* --------------------------------------------------------- specifications
\* The builders as groups of actions; NF / EF: the field names the caller
\* uses, WI / WK: the ids and keys given to where(...).
InsertOps(NF) ==
    \/ \E sg \in BOOLEAN, f \in BOOLEAN : Insert_begin(sg, f)
    \/ \E k \in Selectors \cup {NoKey}, f \in BOOLEAN : Insert_item(k, f)
    \/ \E n \in NF, v \in Values, f \in Faults : Insert_field(n, v, f)
    \/ Insert_append
    \/ \E f \in BOOLEAN : Insert_commit(f)
    \/ \E f \in BOOLEAN : Insert_except(f)

UpdateOps(NF, WI, WK) ==
    \/ \E i \in WI, k \in WK, f \in StartFaults : Update_begin(i, k, f)
    \/ \E n \in NF, v \in Values, f \in Faults : Update_field(n, v, f)
    \/ \E f \in BOOLEAN : Update_commit(f)
    \/ \E f \in BOOLEAN : Update_except(f)
    \/ \E h \in 1 .. MaxId, f \in BOOLEAN : UpdateByRef_begin(h, f)
    \/ \E n \in NF, v \in Values, f \in Faults : UpdateByRef_field(n, v, f)
    \/ \E f \in BOOLEAN : UpdateByRef_commit(f)
    \/ \E f \in BOOLEAN : UpdateByRef_except(f)

DeleteOps(WI, WK) ==
    \/ \E i \in WI, k \in WK, f \in StartFaults : Delete_begin(i, k, f)
    \/ \E f \in BOOLEAN : Delete_node(f)
    \/ \E f \in BOOLEAN : Delete_commit(f)
    \/ \E f \in BOOLEAN : Delete_except(f)

LinkOps(EF) ==
    \/ \E x \in 1 .. MaxId, y \in 1 .. MaxId, f \in EdgeFaults : Link_begin(x, y, f)
    \/ \E f \in BOOLEAN : Link_edge(f)
    \/ \E n \in EF, v \in Values, f \in Faults : Link_field(n, v, f)
    \/ \E f \in BOOLEAN : Link_commit(f)
    \/ \E f \in BOOLEAN : Link_except(f)
    \/ \E x \in 1 .. MaxId, y \in 1 .. MaxId, f \in EdgeFaults : Unlink_begin(x, y, f)
    \/ \E f \in BOOLEAN : Unlink_edge(f)
    \/ \E f \in BOOLEAN : Unlink_commit(f)
    \/ \E f \in BOOLEAN : Unlink_except(f)

UpdateEdgeOps(EF) ==
    \/ \E x \in 1 .. MaxId, y \in 1 .. MaxId, f \in EdgeFaults : UpdateEdge_begin(x, y, f)
    \/ \E n \in EF, v \in Values, f \in Faults : UpdateEdge_field(n, v, f)
    \/ \E f \in BOOLEAN : UpdateEdge_commit(f)
    \/ \E f \in BOOLEAN : UpdateEdge_except(f)

\* Spec: every builder on an empty database, one declared property per type
\* (age: int on nodes, since: int on edges).
Next ==
    \/ InsertOps({"age"})
    \/ UpdateOps({"age"}, WhereIds, WhereKeys)
    \/ DeleteOps(WhereIds, WhereKeys)
    \/ LinkOps({"since"})
    \/ UpdateEdgeOps({"since"})
    \/ Forget

Spec == Init /\ [][Next]_vars

\* SpecInsert: insert with every field name, declared (name, age, emb) and
\* not (zz), and delete, which frees keys for later inserts.
NextInsert ==
    \/ InsertOps(NodeFieldNames)
    \/ DeleteOps(WhereIds, WhereKeys)
    \/ Forget

SpecInsert == Init /\ [][NextInsert]_vars

\* SpecRepeat: inserts whose executor may be run a second time
NextRepeat ==
    \/ InsertOps({"age"})
    \/ \E f \in BOOLEAN : InsertAgain_begin(f)
    \/ InsertAgain_item
    \/ \E f \in BOOLEAN : InsertAgain_except(f)
    \/ Forget

SpecRepeat == Init /\ [][NextRepeat]_vars

\* SpecUpdate: the three update builders and delete on a database that holds
\* two nodes and an edge between them, with both declared properties per type.
PopulatedStore ==
    [nodes |-> [i \in {1, 2} |-> IF i = 1 THEN key_fn("a") ELSE key_fn("b")],
     nprops |-> [x \in {<<1, "name">>, <<1, "age">>} |->
                    IF x[2] = "name" THEN [tag |-> "string", val |-> "a"]
                    ELSE [tag |-> "int", val |-> "7"]],
     edges |-> {<<1, KnowsId, 2>>},
     eprops |-> [x \in {<<1, KnowsId, 2, "since">>} |-> [tag |-> "int", val |-> "7"]]]

InitUpdate ==
    /\ parallel = {}
    /\ NoBuilder
    /\ store = PopulatedStore
    /\ nextId = 3
    /\ txOpen = FALSE
    /\ snap = EmptyStore
    /\ pc = "idle"
    /\ op = "none"
    /\ single = FALSE
    /\ sel = [id |-> NoId, key |-> NoKey]
    /\ target = NoId
    /\ ends = <<NoId, NoId>>
    /\ keysIn = <<>>
    /\ item = EmptyFn
    /\ results = <<>>
    /\ err = ""
    /\ out = NoOut
    /\ calls = NoCalls
    /\ pre = EmptyStore
    /\ prevDel = NoKey

NextUpdate ==
    \/ UpdateOps({"name", "age"}, 1 .. 2, {NoKey})
    \/ UpdateEdgeOps({"since", "weight"})
    \/ DeleteOps(1 .. 2, {NoKey})
    \/ Forget

SpecUpdate == InitUpdate /\ [][NextUpdate]_vars

\* SpecFields: the five builders that take a dict of fields, each with one
\* declared name and one name the type does not declare (zz).
NextFields ==
    \/ InsertOps({"age", "zz"})
    \/ UpdateOps({"age", "zz"}, 1 .. MaxId, {NoKey})
    \/ LinkOps({"since", "zz"})
    \/ UpdateEdgeOps({"since", "zz"})
    \/ Forget

SpecFields == Init /\ [][NextFields]_vars

\* ------------------------------------------------- traversal: engine reads
\* traverseOut / traverseIn(id, etypeId?) -> idSequence: one entry per edge, a
\* parallel edge reported once more; the order is the engine's (here by edge
\* type, then by node id).  et = NoId: no edge type filter.
FollowsId == 2
Rank(e) == e[2] * 100 + e[1] * 10 + e[3]

RECURSIVE EdgeList(_)
EdgeList(E) ==
    IF E = {} THEN <<>>
    ELSE LET e == CHOOSE x \in E : \A y \in E : Rank(x) <= Rank(y)
         IN <<e>> \o EdgeList(E \ {e})

RECURSIVE Ends(_, _, _)
Ends(es, pos, par) ==
    IF es = <<>> THEN <<>>
    ELSE (IF Head(es) \in par THEN <<Head(es)[pos], Head(es)[pos]>> ELSE <<Head(es)[pos]>>)
         \o Ends(Tail(es), pos, par)

traverse_out(st, par, id, et) ==
    Ends(EdgeList({e \in st.edges : e[1] = id /\ (et = NoId \/ e[2] = et)}), 3, par)
traverse_in(st, par, id, et) ==
    Ends(EdgeList({e \in st.edges : e[3] = id /\ (et = NoId \/ e[2] = et)}), 1, par)

\* getNodeKey(id) -> key | absent
get_node_key(st, id) == IF id \in DOMAIN st.nodes THEN st.nodes[id] ELSE NoKey

\* the batched variants: (id, key) pairs
WithKeys(st, ids) == [i \in DOMAIN ids |-> <<ids[i], get_node_key(st, ids[i])>>]
traverse_out_with_keys(st, par, id, et) == WithKeys(st, traverse_out(st, par, id, et))
traverse_in_with_keys(st, par, id, et) == WithKeys(st, traverse_in(st, par, id, et))

\* getNodeProp(id, propKeyId) -> value | absent
NoProp == [tag |-> "absent", val |-> ""]
get_node_prop(st, id, name) ==
    IF <<id, name>> \in DOMAIN st.nprops THEN st.nprops[<<id, name>>] ELSE NoProp

\* get_node_def(node_id): the node type of a node the engine holds, found by
\* its key; None (FALSE) for an id it does not hold and for a node whose key
\* is of no declared node type
UserKeys == {key_fn(x) : x \in {"a", "b", "c", "d", "e"}}
get_node_def(st, id) == id \in DOMAIN st.nodes /\ st.nodes[id] \in UserKeys

\* ---------------------------------------------------- traversal: execution
\* iteration order of a Python set of small ints
RECURSIVE SortedSeq(_)
SortedSeq(S) ==
    IF S = {} THEN <<>>
    ELSE LET m == CHOOSE x \in S : \A y \in S : x <= y IN <<m>> \o SortedSeq(S \ {m})

\* (mutant) the visited test is missing: every neighbor is appended
Merge_all(next_ids, neighbor_ids) == next_ids \o neighbor_ids

\* for neighbor_id in neighbor_ids: if neighbor_id not in visited: add, append
RECURSIVE Merge(_, _)
Merge(next_ids, neighbor_ids) ==
    IF neighbor_ids = <<>> THEN next_ids
    ELSE Merge(IF Head(neighbor_ids) \in Range(next_ids) THEN next_ids
               ELSE Append(next_ids, Head(neighbor_ids)),
               Tail(neighbor_ids))

\* (mutant) a both step follows the outgoing edges only
both_ids_out_only(out_ids, in_ids) == out_ids

\* neighbor_ids = list(set(out_ids) | set(in_ids))
both_ids(out_ids, in_ids) == SortedSeq(Range(out_ids) \cup Range(in_ids))

\* the neighbor ids of one frontier member for one step
neighbor_ids(st, par, step, id) ==
    IF step.type = "out" THEN traverse_out(st, par, id, step.edge)
    ELSE IF step.type = "in" THEN traverse_in(st, par, id, step.edge)
    ELSE both_ids(traverse_out(st, par, id, step.edge), traverse_in(st, par, id, step.edge))

\* for node_id in current_ids: ... ; current_ids = next_ids
RECURSIVE expand(_, _, _, _, _)
expand(st, par, step, current_ids, next_ids) ==
    IF current_ids = <<>> THEN next_ids
    ELSE expand(st, par, step, Tail(current_ids),
                Merge(next_ids, neighbor_ids(st, par, step, Head(current_ids))))

\* (mutant) visited is created once, before the loop over the steps, and holds
\* the start ids: a node of an earlier frontier is never appended again
RECURSIVE fast_visited(_, _, _, _, _)
fast_visited(st, par, current_ids, ss, visited) ==
    IF ss = <<>> THEN current_ids
    ELSE LET next_ids == expand(st, par, Head(ss), current_ids, <<>>)
             fresh == SelectSeq(next_ids, LAMBDA id : id \notin visited)
         IN fast_visited(st, par, fresh, Tail(ss), visited \cup Range(fresh))
execute_fast_visited_once(st, par, current_ids, ss) ==
    fast_visited(st, par, current_ids, ss, Range(current_ids))

\* TraversalResult._execute_fast / _execute_fast_count: the final current_ids
RECURSIVE execute_fast(_, _, _, _)
execute_fast(st, par, current_ids, ss) ==
    IF ss = <<>> THEN current_ids
    ELSE execute_fast(st, par, expand(st, par, Head(ss), current_ids, <<>>), Tail(ss))

\* key or f"node:{neighbor_id}"
key_or_fallback(key, id) == IF key = NoKey \/ key = "" THEN "node:" \o ToString(id) ELSE key

\* both with keys: out_pairs + in_pairs, deduplicated by id (seen)
RECURSIVE dedup_pairs(_, _)
dedup_pairs(pairs, rest) ==
    IF rest = <<>> THEN pairs
    ELSE dedup_pairs(IF Head(rest)[1] \in {q[1] : q \in Range(pairs)} THEN pairs
                     ELSE Append(pairs, Head(rest)),
                     Tail(rest))

\* the (id, key) pairs of one frontier member for one step
pairs_of(st, par, step, id) ==
    IF step.type = "out" THEN traverse_out_with_keys(st, par, id, step.edge)
    ELSE IF step.type = "in" THEN traverse_in_with_keys(st, par, id, step.edge)
    ELSE dedup_pairs(<<>>, traverse_out_with_keys(st, par, id, step.edge)
                            \o traverse_in_with_keys(st, par, id, step.edge))

\* for neighbor_id, key in pairs: if neighbor_id not in visited: add, append
RECURSIVE MergePairs(_, _)
MergePairs(next_pairs, pairs) ==
    IF pairs = <<>> THEN next_pairs
    ELSE MergePairs(IF Head(pairs)[1] \in {q[1] : q \in Range(next_pairs)} THEN next_pairs
                    ELSE Append(next_pairs,
                                <<Head(pairs)[1], key_or_fallback(Head(pairs)[2], Head(pairs)[1])>>),
                    Tail(pairs))

RECURSIVE expand_pairs(_, _, _, _, _)
expand_pairs(st, par, step, current_ids, next_pairs) ==
    IF current_ids = <<>> THEN next_pairs
    ELSE expand_pairs(st, par, step, Tail(current_ids),
                      MergePairs(next_pairs, pairs_of(st, par, step, Head(current_ids))))

PairIds(pairs) == [i \in DOMAIN pairs |-> pairs[i][1]]
StartIds(starts) == [i \in DOMAIN starts |-> starts[i].id]

RECURSIVE keys_loop(_, _, _, _, _)
keys_loop(st, par, current_ids, ss, next_pairs) ==
    IF ss = <<>> THEN next_pairs
    ELSE LET np == expand_pairs(st, par, Head(ss), current_ids, <<>>)
         IN keys_loop(st, par, PairIds(np), Tail(ss), np)

\* TraversalResult._execute_fast_with_keys: no steps, the start nodes' own pairs
execute_fast_with_keys(st, par, starts, ss) ==
    IF ss = <<>> THEN [i \in DOMAIN starts |-> <<starts[i].id, starts[i].key>>]
    ELSE keys_loop(st, par, StartIds(starts), ss, <<>>)

\* from_prop_value: pv.value()
from_prop_value(pv) ==
    IF pv.tag = "null" THEN None
    ELSE [ty |-> IF pv.tag = "string" THEN "str" ELSE pv.tag, s |-> pv.val]

\* TraversalResult._load_node_props
load_node_props(st, strategy, id) ==
    IF ~needs_any_props(strategy) THEN EmptyFn
    ELSE [n \in {m \in DOMAIN NodePropTypes :
                    should_load(strategy, m) /\ get_node_prop(st, id, m) # NoProp} |->
              from_prop_value(get_node_prop(st, id, n))]

\* _create_node_ref returned None
NoRef == [id |-> NoId, key |-> NoKey, props |-> EmptyFn]

\* TraversalResult._create_node_ref
create_node_ref(st, strategy, id, load) ==
    IF ~get_node_def(st, id) THEN NoRef
    ELSE NodeRef(id,
                 IF get_node_key(st, id) = NoKey THEN "node:" \o ToString(id)
                 ELSE get_node_key(st, id),
                 IF load THEN load_node_props(st, strategy, id) ELSE EmptyFn)

\* the predicate given to where_node: lambda n: n.age is not None.
\* NodeRef.__getattr__ answers None for a declared property that is not in props.
Predicates == {"has_age"}
apply_filter(pred, ref) == "age" \in DOMAIN ref.props /\ ref.props["age"] # None

\* current_ids = [node.id for node in self._start_nodes]: every execution
\* begins at the start handles, whatever an earlier execution (seen) ended with
start_ids_resumed(starts, seen) == IF seen = <<>> THEN StartIds(starts) ELSE seen[1]

start_ids(starts, seen) == StartIds(starts)

\* TraversalResult._execute: the handles the generator yields, in order
execute(st, par, starts, ss, filter, strategy, seen) ==
    LET needs_filter == filter # NoFilter
        needs_props == needs_any_props(strategy)
    IN IF ~needs_filter /\ ~needs_props
       THEN LET pairs == execute_fast_with_keys(st, par, starts, ss)
                known(q) == get_node_def(st, q[1])
                kept == SelectSeq(pairs, known)
            IN [i \in DOMAIN kept |-> NodeRef(kept[i][1], kept[i][2], EmptyFn)]
       ELSE LET ids == execute_fast(st, par, start_ids(starts, seen), ss)
                refs == [i \in DOMAIN ids |->
                            create_node_ref(st, strategy, ids[i], needs_props \/ needs_filter)]
                passes(r) == r # NoRef /\ (filter = NoFilter \/ apply_filter(filter, r))
            IN SelectSeq(refs, passes)

\* the traverse calls of an execution, <<outgoing, incoming>>: one per frontier
\* member and direction at every step
RECURSIVE hop_calls(_, _, _, _)
hop_calls(st, par, current_ids, ss) ==
    IF ss = <<>> THEN <<0, 0>>
    ELSE LET rest == hop_calls(st, par, expand(st, par, Head(ss), current_ids, <<>>), Tail(ss))
             n == Len(current_ids)
         IN <<rest[1] + (IF Head(ss).type \in {"out", "both"} THEN n ELSE 0),
              rest[2] + (IF Head(ss).type \in {"in", "both"} THEN n ELSE 0)>>

\* how many items of the generator's source a consumer takes: all of them, or
\* (first) those up to the first one that is yielded
Consumed(flags, all) ==
    IF all \/ ~\E i \in DOMAIN flags : flags[i] THEN Len(flags)
    ELSE CHOOSE i \in DOMAIN flags : flags[i] /\ \A j \in 1 .. (i - 1) : ~flags[j]

\* the engine and resolver calls _execute issues while it is consumed
execute_calls(st, par, starts, ss, filter, strategy, seen, all) ==
    LET needs_filter == filter # NoFilter
        needs_props == needs_any_props(strategy)
    IN IF ~needs_filter /\ ~needs_props
       THEN LET h == hop_calls(st, par, StartIds(starts), ss)
                pairs == execute_fast_with_keys(st, par, starts, ss)
                k == Consumed([i \in DOMAIN pairs |-> get_node_def(st, pairs[i][1])], all)
            IN [NoTCalls EXCEPT !["traverse_out_with_keys"] = h[1],
                                !["traverse_in_with_keys"] = h[2],
                                !["get_node_def"] = k]
       ELSE LET h == hop_calls(st, par, start_ids(starts, seen), ss)
                ids == execute_fast(st, par, start_ids(starts, seen), ss)
                ref(i) == create_node_ref(st, strategy, ids[i], TRUE)
                k == Consumed([i \in DOMAIN ids |->
                                  ref(i) # NoRef
                                  /\ (filter = NoFilter \/ apply_filter(filter, ref(i)))], all)
                found == Cardinality({i \in 1 .. k : get_node_def(st, ids[i])})
                each == IF needs_props
                        THEN Cardinality({m \in DOMAIN NodePropTypes : should_load(strategy, m)})
                        ELSE 0
            IN [NoTCalls EXCEPT !["traverse_out"] = h[1],
                                !["traverse_in"] = h[2],
                                !["get_node_def"] = k,
                                !["get_node_key"] = found,
                                !["resolve_prop_key_id"] = found * each,
                                !["get_node_prop"] = found * each]

\* the calls of _execute_fast and _execute_fast_count
fast_calls(st, par, current_ids, ss) ==
    [NoTCalls EXCEPT !["traverse_out"] = hop_calls(st, par, current_ids, ss)[1],
                     !["traverse_in"] = hop_calls(st, par, current_ids, ss)[2]]

TOut(top, hs, ids, ks, n, st) ==
    [kind |-> "returned", op |-> top, hs |-> hs, ids |-> ids, ks |-> ks, n |-> n,
     err |-> "", st |-> st]

\* the terminal operations of TraversalResult: what each returns and the calls
\* it issues
to_list(st, par, starts, ss, filter, strategy, seen) ==
    [out |-> TOut("to_list", execute(st, par, starts, ss, filter, strategy, seen), <<>>, <<>>, 0, st),
     calls |-> execute_calls(st, par, starts, ss, filter, strategy, seen, TRUE)]

iterate(st, par, starts, ss, filter, strategy, seen) ==
    [out |-> TOut("iter", execute(st, par, starts, ss, filter, strategy, seen), <<>>, <<>>, 0, st),
     calls |-> execute_calls(st, par, starts, ss, filter, strategy, seen, TRUE)]

first(st, par, starts, ss, filter, strategy, seen) ==
    [out |-> TOut("first",
                  IF execute(st, par, starts, ss, filter, strategy, seen) = <<>> THEN <<>>
                  ELSE <<Head(execute(st, par, starts, ss, filter, strategy, seen))>>,
                  <<>>, <<>>, 0, st),
     calls |-> execute_calls(st, par, starts, ss, filter, strategy, seen, FALSE)]

\* (mutant) count always consumes _execute, as it does with a predicate
count_via_execute(st, par, starts, ss, filter, strategy, seen) ==
    [out |-> TOut("count", <<>>, <<>>, <<>>,
                  Len(execute(st, par, starts, ss, filter, strategy, seen)), st),
     calls |-> execute_calls(st, par, starts, ss, filter, strategy, seen, TRUE)]

count(st, par, starts, ss, filter, strategy, seen) ==
    IF filter = NoFilter
    THEN [out |-> TOut("count", <<>>, <<>>, <<>>,
                       Len(execute_fast(st, par, start_ids(starts, seen), ss)), st),
          calls |-> fast_calls(st, par, start_ids(starts, seen), ss)]
    ELSE [out |-> TOut("count", <<>>, <<>>, <<>>,
                       Len(execute(st, par, starts, ss, filter, strategy, seen)), st),
          calls |-> execute_calls(st, par, starts, ss, filter, strategy, seen, TRUE)]

ids(st, par, starts, ss, filter, strategy, seen) ==
    [out |-> TOut("ids", <<>>, execute_fast(st, par, start_ids(starts, seen), ss), <<>>, 0, st),
     calls |-> fast_calls(st, par, start_ids(starts, seen), ss)]

keys(st, par, starts, ss, filter, strategy, seen) ==
    LET found == execute_fast(st, par, start_ids(starts, seen), ss)
        all == [i \in DOMAIN found |-> get_node_key(st, found[i])]
    IN [out |-> TOut("keys", <<>>, <<>>, SelectSeq(all, truthy), 0, st),
        calls |-> [fast_calls(st, par, start_ids(starts, seen), ss)
                       EXCEPT !["get_node_key"] = Len(found)]]

TerminalOps == {"to_list", "first", "iter", "count", "ids", "keys"}
terminal(top, st, par, starts, ss, filter, strategy, seen) ==
    IF top = "to_list" THEN to_list(st, par, starts, ss, filter, strategy, seen)
    ELSE IF top = "iter" THEN iterate(st, par, starts, ss, filter, strategy, seen)
    ELSE IF top = "first" THEN first(st, par, starts, ss, filter, strategy, seen)
    ELSE IF top = "count" THEN count(st, par, starts, ss, filter, strategy, seen)
    ELSE IF top = "ids" THEN ids(st, par, starts, ss, filter, strategy, seen)
    ELSE keys(st, par, starts, ss, filter, strategy, seen)

\* the calls of an execution in the order they are issued: at every step one
\* traverse call per frontier member (outgoing before incoming for both), then
\* what the consumer of the generator calls for each id it takes
RECURSIVE Repeat(_, _)
Repeat(q, n) == IF n = 0 THEN <<>> ELSE q \o Repeat(q, n - 1)

RECURSIVE hop_trace(_, _, _, _, _)
hop_trace(st, par, current_ids, ss, keyed) ==
    IF ss = <<>> THEN <<>>
    ELSE LET o == IF keyed THEN "traverse_out_with_keys" ELSE "traverse_out"
             i == IF keyed THEN "traverse_in_with_keys" ELSE "traverse_in"
             one == IF Head(ss).type = "out" THEN <<o>>
                    ELSE IF Head(ss).type = "in" THEN <<i>>
                    ELSE <<o, i>>
         IN Repeat(one, Len(current_ids))
            \o hop_trace(st, par, expand(st, par, Head(ss), current_ids, <<>>), Tail(ss), keyed)

\* _create_node_ref(node_id, load_props=True) for each id of q
RECURSIVE ref_trace(_, _, _)
ref_trace(st, strategy, q) ==
    IF q = <<>> THEN <<>>
    ELSE (IF ~get_node_def(st, Head(q)) THEN <<"get_node_def">>
          ELSE <<"get_node_def", "get_node_key">>
               \o Repeat(<<"resolve_prop_key_id", "get_node_prop">>,
                         IF needs_any_props(strategy)
                         THEN Cardinality({m \in DOMAIN NodePropTypes : should_load(strategy, m)})
                         ELSE 0))
         \o ref_trace(st, strategy, Tail(q))

execute_trace(st, par, starts, ss, filter, strategy, seen, all) ==
    LET k == execute_calls(st, par, starts, ss, filter, strategy, seen, all)["get_node_def"]
    IN IF filter = NoFilter /\ ~needs_any_props(strategy)
       THEN hop_trace(st, par, StartIds(starts), ss, TRUE) \o Repeat(<<"get_node_def">>, k)
       ELSE hop_trace(st, par, start_ids(starts, seen), ss, FALSE)
            \o ref_trace(st, strategy,
                         SubSeq(execute_fast(st, par, start_ids(starts, seen), ss), 1, k))

terminal_trace(top, st, par, starts, ss, filter, strategy, seen) ==
    IF top \in {"to_list", "iter"} \/ (top = "count" /\ filter # NoFilter)
    THEN execute_trace(st, par, starts, ss, filter, strategy, seen, TRUE)
    ELSE IF top = "first"
    THEN execute_trace(st, par, starts, ss, filter, strategy, seen, FALSE)
    ELSE hop_trace(st, par, start_ids(starts, seen), ss, FALSE)
         \o (IF top = "keys"
             THEN Repeat(<<"get_node_key">>,
                         Len(execute_fast(st, par, start_ids(starts, seen), ss)))
             ELSE <<>>)

\* how often each call occurs among the first k of a trace
calls_until(t, k) == [c \in TCallNames |-> Cardinality({i \in 1 .. k : t[i] = c})]

\* ------------------------------------------------- traversal: the builder
\* OutStep / InStep / BothStep(edge_def); edge is NoId when no edge type is given
TraversalStep(type, edge) == [type |-> type, edge |-> edge]
EdgeArgs == {NoId, KnowsId}

\* TraversalBuilder.__init__ (db.from_(start_nodes))
Trav_from(starts) ==
    /\ pc = "idle" /\ tpc = "none"
    /\ tpc' = "built"
    /\ start_nodes' = starts
    /\ steps' = <<>>
    /\ node_filter' = NoFilter
    /\ prop_strategy' = Strategy_none
    /\ tout' = NoTOut
    /\ tcalls' = NoTCalls
    /\ tseen' = <<>>
    /\ res' = NoRes
    /\ UNCHANGED <<store, parallel, mutation, pq>>

\* a builder method is called on a builder no terminal operation has run on yet
Building == pc = "idle" /\ tpc = "built" /\ tout.kind = "none"

Trav_out(edge) ==
    /\ Building /\ Len(steps) < MaxSteps
    /\ steps' = Append(steps, TraversalStep("out", edge))
    /\ UNCHANGED <<store, parallel, mutation, tpc, start_nodes, node_filter, prop_strategy,
                   tout, tcalls, tseen, res, pq>>

Trav_in(edge) ==
    /\ Building /\ Len(steps) < MaxSteps
    /\ steps' = Append(steps, TraversalStep("in", edge))
    /\ UNCHANGED <<store, parallel, mutation, tpc, start_nodes, node_filter, prop_strategy,
                   tout, tcalls, tseen, res, pq>>

Trav_both(edge) ==
    /\ Building /\ Len(steps) < MaxSteps
    /\ steps' = Append(steps, TraversalStep("both", edge))
    /\ UNCHANGED <<store, parallel, mutation, tpc, start_nodes, node_filter, prop_strategy,
                   tout, tcalls, tseen, res, pq>>

Trav_with_props ==
    /\ Building
    /\ prop_strategy' = Strategy_all
    /\ UNCHANGED <<store, parallel, mutation, tpc, start_nodes, steps, node_filter,
                   tout, tcalls, tseen, res, pq>>

Trav_load_props(prop_names) ==
    /\ Building
    /\ prop_strategy' = Strategy_only(prop_names)
    /\ UNCHANGED <<store, parallel, mutation, tpc, start_nodes, steps, node_filter,
                   tout, tcalls, tseen, res, pq>>

Trav_where_node(predicate) ==
    /\ Building
    /\ node_filter' = predicate
    /\ prop_strategy' = Strategy_all
    /\ UNCHANGED <<store, parallel, mutation, tpc, start_nodes, steps,
                   tout, tcalls, tseen, res, pq>>

\* a terminal operation of the builder: _build_result() and the operation on it
Run(top) ==
    /\ pc = "idle" /\ tpc = "built"
    /\ LET r == terminal(top, store, parallel, start_nodes, steps, node_filter,
                         prop_strategy, tseen)
       IN /\ tout' = r.out
          /\ tcalls' = r.calls
    /\ tseen' = <<execute_fast(store, parallel, start_ids(start_nodes, tseen), steps)>>
    /\ UNCHANGED <<store, parallel, mutation, tpc, start_nodes, steps, node_filter,
                   prop_strategy, res, pq>>

\* the first terminal operation on a builder, and a later one
Trav_terminal(top) == tout.kind = "none" /\ Run(top)
Trav_again(top) == tout.kind # "none" /\ Run(top)

\* a terminal operation whose k-th call fails and is issued once more before
\* the error reaches the caller
Trav_fails_retry(top) ==
    /\ pc = "idle" /\ tpc = "built" /\ tout.kind = "none"
    /\ LET t == terminal_trace(top, store, parallel, start_nodes, steps, node_filter,
                               prop_strategy, tseen)
       IN \E k \in 1 .. Len(t) :
              /\ tout' = [NoTOut EXCEPT !.kind = "raised", !.op = top,
                                        !.err = "E:" \o t[k], !.st = store]
              /\ tcalls' = [calls_until(t, k) EXCEPT ![t[k]] = @ + 1]
    /\ UNCHANGED <<store, parallel, mutation, tpc, start_nodes, steps, node_filter,
                   prop_strategy, tseen, res, pq>>

\* a terminal operation whose k-th call fails: no try / except anywhere in
\* TraversalResult, the error leaves the operation as it is
Trav_fails(top) ==
    /\ pc = "idle" /\ tpc = "built" /\ tout.kind = "none"
    /\ LET t == terminal_trace(top, store, parallel, start_nodes, steps, node_filter,
                               prop_strategy, tseen)
       IN \E k \in 1 .. Len(t) :
              /\ tout' = [NoTOut EXCEPT !.kind = "raised", !.op = top,
                                        !.err = "E:" \o t[k], !.st = store]
              /\ tcalls' = calls_until(t, k)
    /\ UNCHANGED <<store, parallel, mutation, tpc, start_nodes, steps, node_filter,
                   prop_strategy, tseen, res, pq>>

\* the caller lets go of a builder it has run
Trav_drop ==
    /\ pc = "idle" /\ tpc = "built" /\ tout.kind # "none"
    /\ tpc' = "none"
    /\ start_nodes' = <<>>
    /\ steps' = <<>>
    /\ node_filter' = NoFilter
    /\ prop_strategy' = Strategy_none
    /\ tout' = NoTOut
    /\ tcalls' = NoTCalls
    /\ tseen' = <<>>
    /\ res' = NoRes
    /\ UNCHANGED <<store, parallel, mutation, pq>>

PropNameSets == {{}, {"name"}}
BuilderOps ==
    \/ \E edge \in EdgeArgs : Trav_out(edge)
    \/ \E edge \in EdgeArgs : Trav_in(edge)
    \/ \E edge \in EdgeArgs : Trav_both(edge)
    \/ Trav_with_props
    \/ \E prop_names \in PropNameSets : Trav_load_props(prop_names)
    \/ \E predicate \in Predicates : Trav_where_node(predicate)

\* ---------------------------------------------- traversal: specification
\* The store holds nodes 1 .. MaxId + 1 (user:a, user:b, ...), node MaxId + 2
\* has been deleted; node 2 has name and age, the others name only.  The
\* edges are one of Graphs; the edge 1 -knows-> 2 may exist twice.
NodeKey(i) == key_fn(<<"a", "b", "c", "d", "e">>[i])
TravNodes == 1 .. (MaxId + 1)
Names == [tag |-> "string", val |-> "a"]
Ages == [tag |-> "int", val |-> "7"]
TravStore(edges) ==
    [nodes |-> [i \in TravNodes |-> NodeKey(i)],
     nprops |-> [x \in {<<i, "name">> : i \in TravNodes} \cup {<<2, "age">>} |->
                    IF x[2] = "age" THEN Ages ELSE Names],
     edges |-> edges,
     eprops |-> EmptyFn]
Graphs ==
    {{<<1, KnowsId, 2>>, <<1, KnowsId, 3>>, <<2, KnowsId, 3>>},
     {<<1, KnowsId, 2>>, <<2, KnowsId, 1>>, <<1, FollowsId, 2>>},
     {<<1, KnowsId, 2>>, <<3, KnowsId, 1>>, <<1, FollowsId, 3>>}}

\* the handles the caller holds: that of node 1 as insert returned it (with
\* the name it was given), that of node 2, and that of the deleted node
Held(i) == NodeRef(i, NodeKey(i), IF i = 1 THEN [name |-> SA] ELSE EmptyFn)
StartLists ==
    {<<Held(1)>>, <<Held(2)>>, <<Held(1), Held(1)>>, <<Held(1), Held(2)>>, <<Held(MaxId + 2)>>}

InitTraverse ==
    /\ \E g \in Graphs :
           /\ store = TravStore(g)
           /\ parallel \in SUBSET (g \cap {<<1, KnowsId, 2>>})
    /\ NoBuilder
    /\ nextId = MaxId + 3
    /\ txOpen = FALSE
    /\ snap = EmptyStore
    /\ pc = "idle"
    /\ op = "none"
    /\ single = FALSE
    /\ sel = [id |-> NoId, key |-> NoKey]
    /\ target = NoId
    /\ ends = <<NoId, NoId>>
    /\ keysIn = <<>>
    /\ item = EmptyFn
    /\ results = <<>>
    /\ err = ""
    /\ out = NoOut
    /\ calls = NoCalls
    /\ pre = EmptyStore
    /\ prevDel = NoKey

NextTraverse ==
    \/ \E starts \in StartLists : Trav_from(starts)
    \/ BuilderOps
    \/ \E top \in TerminalOps : Trav_terminal(top)
    \/ Trav_drop

SpecTraverse == InitTraverse /\ [][NextTraverse]_vars

\* Traversals of one graph interleaved with deletes: once a terminal operation
\* has run on the builder, nodes 2 and 3 may be deleted (by id) before the
\* next terminal operation on the same builder, or on a new one.
InitFresh ==
    /\ InitTraverse
    /\ store = TravStore({<<1, KnowsId, 2>>, <<1, KnowsId, 3>>, <<2, KnowsId, 3>>})
    /\ parallel = {}

NextFresh ==
    \/ \E starts \in {<<Held(1)>>, <<Held(1), Held(2)>>} : Trav_from(starts)
    \/ Trav_out(KnowsId)
    \/ Trav_in(KnowsId)
    \/ Trav_both(KnowsId)
    \/ Trav_with_props
    \/ Trav_load_props({"name"})
    \/ Trav_where_node("has_age")
    \/ \E top \in TerminalOps : Trav_terminal(top)
    \/ \E top \in TerminalOps : Trav_again(top)
    \/ Trav_drop
    \/ (tout.kind # "none" /\ DeleteOps({2, 3}, {NoKey}))
    \/ Forget

SpecFresh == InitFresh /\ [][NextFresh]_vars

\* ------------------------------------------------ traversal: the result
\* TraversalBuilder.nodes(): _build_result() hands the builder's lists and the
\* current predicate and strategy to a TraversalResult
Trav_nodes ==
    /\ pc = "idle" /\ tpc = "built" /\ ~res.made
    /\ res' = [made |-> TRUE, node_filter |-> node_filter, prop_strategy |-> prop_strategy]
    /\ UNCHANGED <<store, parallel, mutation, tpc, start_nodes, steps, node_filter,
                   prop_strategy, tout, tcalls, tseen, pq>>

\* a terminal operation called on the TraversalResult
Res_terminal(top) ==
    /\ pc = "idle" /\ res.made
    /\ LET r == terminal(top, store, parallel, start_nodes, steps, res.node_filter,
                         res.prop_strategy, tseen)
       IN /\ tout' = r.out
          /\ tcalls' = r.calls
    /\ tseen' = <<execute_fast(store, parallel, start_ids(start_nodes, tseen), steps)>>
                 \o (IF tseen = <<>> THEN <<>> ELSE <<Head(tseen)>>)
    /\ UNCHANGED <<store, parallel, mutation, tpc, start_nodes, steps, node_filter,
                   prop_strategy, res, pq>>

\* the caller is done with what the last terminal operation returned
Trav_forget ==
    /\ pc = "idle" /\ tout.kind # "none"
    /\ tout' = NoTOut
    /\ tcalls' = NoTCalls
    /\ UNCHANGED <<store, parallel, mutation, tpc, start_nodes, steps, node_filter,
                   prop_strategy, tseen, res, pq>>

\* One TraversalResult from node 1 of the populated database, its terminal
\* operations interleaved with mutation calls: delete of node 2, link and
\* unlink of 1 -knows-> 2, update of age on node 2.
Between == res.made /\ tout.kind = "none"
NextResult ==
    \/ Trav_from(<<Held(1)>>)
    \/ Trav_out(KnowsId)
    \/ Trav_both(KnowsId)
    \/ Trav_where_node("has_age")
    \/ Trav_nodes
    \/ \E top \in TerminalOps : Res_terminal(top)
    \/ Trav_forget
    \/ Trav_drop
    \/ (Between /\ DeleteOps({2}, {NoKey}))
    \/ (Between /\ \E f \in EdgeFaults : Link_begin(1, 2, f))
    \/ \E f \in BOOLEAN : Link_edge(f)
    \/ \E f \in BOOLEAN : Link_commit(f)
    \/ \E f \in BOOLEAN : Link_except(f)
    \/ (Between /\ \E f \in EdgeFaults : Unlink_begin(1, 2, f))
    \/ \E f \in BOOLEAN : Unlink_edge(f)
    \/ \E f \in BOOLEAN : Unlink_commit(f)
    \/ \E f \in BOOLEAN : Unlink_except(f)
    \/ (Between /\ \E f \in StartFaults : Update_begin(2, NoKey, f))
    \/ \E v \in Values, f \in Faults : Update_field("age", v, f)
    \/ \E f \in BOOLEAN : Update_commit(f)
    \/ \E f \in BOOLEAN : Update_except(f)
    \/ Forget

SpecResult == InitUpdate /\ [][NextResult]_vars

\* ------------------------------------------------------ path queries: engine
\* findPathBfs / findPathDijkstra(source, target, etypeId?, maxDepth?, direction)
\* -> {found, pathIds, totalWeight}: pathIds is a path with the fewest hops,
\* within maxDepth hops, over edges of the type (any type when none is given)
\* followed in the direction; the weight is the engine's own.
Hop(st, et, dir, a, b) ==
    \E e \in st.edges :
        /\ et = NoId \/ e[2] = et
        /\ \/ (dir \in {"out", "both"} /\ e[1] = a /\ e[3] = b)
           \/ (dir \in {"in", "both"} /\ e[1] = b /\ e[3] = a)

PathsOfLen(st, s, t, et, dir, n) ==
    {p \in [1 .. (n + 1) -> DOMAIN st.nodes] :
        /\ p[1] = s /\ p[n + 1] = t
        /\ \A i \in 1 .. n : Hop(st, et, dir, p[i], p[i + 1])}

RECURSIVE shortest(_, _, _, _, _, _, _)
shortest(st, s, t, et, dir, n, limit) ==
    IF n > limit THEN <<>>
    ELSE IF PathsOfLen(st, s, t, et, dir, n) # {}
    THEN CHOOSE p \in PathsOfLen(st, s, t, et, dir, n) : TRUE
    ELSE shortest(st, s, t, et, dir, n + 1, limit)

find_path(st, s, t, et, depth, dir) ==
    IF {s, t} \subseteq DOMAIN st.nodes
    THEN shortest(st, s, t, et, dir, 0,
                  IF depth = NoDepth THEN Cardinality(DOMAIN st.nodes) ELSE depth)
    ELSE <<>>

\* hasPath(source, target, etypeId?, maxDepth?) -> bool: along outgoing edges
has_path(st, s, t, et, depth) == find_path(st, s, t, et, depth, "out") # <<>>

\* the total weights an engine answer may carry
Weights == {0, 2}

\* ----------------------------------------------------- path queries: builder
PathOps == {"find", "find_weighted", "exists"}
RaisedP(e) == [NoPOut EXCEPT !.kind = "raised", !.err = e]
ReturnPath(nodes, found, w) ==
    [kind |-> "returned", err |-> "", shape |-> "path", b |-> FALSE, nodes |-> nodes,
     found |-> found, total_weight |-> w]
ReturnExists(b) == [NoPOut EXCEPT !.kind = "returned", !.shape = "bool", !.b = b]
BumpP(c, name) == [c EXCEPT ![name] = @ + 1]

\* PathFindingBuilder.__init__ (db.shortest_path(source))
Path_new(source) ==
    /\ pc = "idle" /\ pq.pc = "none"
    /\ pq' = [NoPath EXCEPT !.pc = "built", !.source = source]
    /\ UNCHANGED <<store, mutation, traversal>>

PathBuilding == pc = "idle" /\ pq.pc = "built"

Path_to(node) ==
    /\ PathBuilding
    /\ pq' = [pq EXCEPT !.target = node]
    /\ UNCHANGED <<store, mutation, traversal>>

Path_via(edge) ==
    /\ PathBuilding
    /\ pq' = [pq EXCEPT !.edge_type = edge]
    /\ UNCHANGED <<store, mutation, traversal>>

Path_max_depth(depth) ==
    /\ PathBuilding
    /\ pq' = [pq EXCEPT !.max_depth = depth]
    /\ UNCHANGED <<store, mutation, traversal>>

Path_direction(dir) ==
    /\ PathBuilding
    /\ pq' = [pq EXCEPT !.direction = dir]
    /\ UNCHANGED <<store, mutation, traversal>>

Path_with_props ==
    /\ PathBuilding
    /\ pq' = [pq EXCEPT !.load_props = TRUE]
    /\ UNCHANGED <<store, mutation, traversal>>

\* a find that resolves the edge type before it looks at the target
Path_start_resolve_first(name, f) ==
    /\ PathBuilding
    /\ IF pq.edge_type # NoId /\ f
       THEN pq' = [pq EXCEPT !.pc = "done", !.op = name,
                             !.calls = BumpP(@, "resolve_etype_id"),
                             !.out = RaisedP("E:resolve_etype_id")]
       ELSE IF pq.target = NoId
       THEN pq' = [pq EXCEPT !.pc = "done", !.op = name,
                             !.calls = IF pq.edge_type = NoId THEN @
                                       ELSE BumpP(@, "resolve_etype_id"),
                             !.out = RaisedP("ValueError:target")]
       ELSE pq' = [pq EXCEPT !.pc = "search", !.op = name,
                             !.calls = IF pq.edge_type = NoId THEN @
                                       ELSE BumpP(@, "resolve_etype_id")]
    /\ UNCHANGED <<store, mutation, traversal>>

\* find / find_weighted / exists up to the engine call: the target check, then
\* etype_id = self._resolve_etype_id(self._edge_type) when an edge type is set
Path_start(name, f) ==
    /\ PathBuilding
    /\ IF pq.target = NoId
       THEN pq' = [pq EXCEPT !.pc = "done", !.op = name, !.out = RaisedP("ValueError:target")]
       ELSE IF pq.edge_type = NoId
       THEN pq' = [pq EXCEPT !.pc = "search", !.op = name]
       ELSE IF f
       THEN pq' = [pq EXCEPT !.pc = "done", !.op = name,
                             !.calls = BumpP(@, "resolve_etype_id"),
                             !.out = RaisedP("E:resolve_etype_id")]
       ELSE pq' = [pq EXCEPT !.pc = "search", !.op = name,
                             !.calls = BumpP(@, "resolve_etype_id")]
    /\ UNCHANGED <<store, mutation, traversal>>

\* result = self._db.find_path_bfs(...) / find_path_dijkstra(...), and the
\* not-found return
Path_search(w, f) ==
    /\ pq.pc = "search" /\ pq.op \in {"find", "find_weighted"}
    /\ LET name == IF pq.op = "find" THEN "find_path_bfs" ELSE "find_path_dijkstra"
           p == find_path(store, pq.source, pq.target, pq.edge_type, pq.max_depth,
                          pq.direction)
       IN IF f
          THEN pq' = [pq EXCEPT !.pc = "done", !.calls = BumpP(@, name),
                                !.out = RaisedP("E:" \o name)]
          ELSE IF p = <<>>
          THEN pq' = [pq EXCEPT !.pc = "done", !.calls = BumpP(@, name),
                                !.found = FALSE, !.path = <<>>, !.total_weight = w,
                                !.out = ReturnPath(<<>>, FALSE, 0)]
          ELSE pq' = [pq EXCEPT !.pc = "nodes", !.calls = BumpP(@, name),
                                !.found = TRUE, !.path = p, !.total_weight = w]
    /\ UNCHANGED <<store, mutation, traversal>>

\* PathFindingBuilder._create_node_ref: what it returns (NoRef for None)
path_node_ref(st, id, load) ==
    IF ~get_node_def(st, id) THEN NoRef
    ELSE NodeRef(id,
                 IF get_node_key(st, id) = NoKey THEN "node:" \o ToString(id)
                 ELSE get_node_key(st, id),
                 IF load THEN load_node_props(st, Strategy_all, id) ELSE EmptyFn)

\* the calls one _create_node_ref issues when nothing fails
path_node_calls(st, id, load, c) ==
    IF ~get_node_def(st, id) THEN BumpP(c, "get_node_def")
    ELSE [c EXCEPT !["get_node_def"] = @ + 1,
                   !["get_node_key"] = @ + 1,
                   !["resolve_prop_key_id"] =
                       @ + (IF load THEN Cardinality(DOMAIN NodePropTypes) ELSE 0),
                   !["get_node_prop"] =
                       @ + (IF load THEN Cardinality(DOMAIN NodePropTypes) ELSE 0)]

PathFaults == {"ok", "get_node_key", "get_node_prop"}

\* for node_id in result.path: node_ref = self._create_node_ref(node_id);
\* if node_ref is not None: nodes.append(node_ref)
Path_node(f) ==
    /\ pq.pc = "nodes"
    /\ pq.path # <<>>
    /\ LET id == Head(pq.path)
           ref == path_node_ref(store, id, pq.load_props)
           c == BumpP(pq.calls, "get_node_def")
       IN IF f = "get_node_key" /\ get_node_def(store, id)
          THEN pq' = [pq EXCEPT !.pc = "done", !.calls = BumpP(c, "get_node_key"),
                                !.out = RaisedP("E:get_node_key")]
          ELSE IF f = "get_node_prop" /\ get_node_def(store, id) /\ pq.load_props
          THEN pq' = [pq EXCEPT !.pc = "done",
                                !.calls = BumpP(BumpP(BumpP(c, "get_node_key"),
                                                      "resolve_prop_key_id"), "get_node_prop"),
                                !.out = RaisedP("E:get_node_prop")]
          ELSE pq' = [pq EXCEPT !.path = Tail(@),
                                !.calls = path_node_calls(store, id, pq.load_props, @),
                                !.nodes = IF ref = NoRef THEN @ ELSE Append(@, ref)]
    /\ UNCHANGED <<store, mutation, traversal>>

\* return PathResult(nodes=nodes, found=True, total_weight=result.total_weight)
Path_return ==
    /\ pq.pc = "nodes"
    /\ pq.path = <<>>
    /\ pq' = [pq EXCEPT !.pc = "done", !.out = ReturnPath(pq.nodes, TRUE, pq.total_weight)]
    /\ UNCHANGED <<store, mutation, traversal>>

\* an exists that builds the handle of the source before it answers
Path_exists_with_handles(f) ==
    /\ pq.pc = "search" /\ pq.op = "exists"
    /\ IF f
       THEN pq' = [pq EXCEPT !.pc = "done", !.calls = BumpP(@, "has_path"),
                             !.out = RaisedP("E:has_path")]
       ELSE pq' = [pq EXCEPT !.pc = "done",
                             !.calls = path_node_calls(store, pq.source, pq.load_props,
                                                       BumpP(@, "has_path")),
                             !.out = ReturnExists(has_path(store, pq.source, pq.target,
                                                           pq.edge_type, pq.max_depth))]
    /\ UNCHANGED <<store, mutation, traversal>>

\* exists: return self._db.has_path(source, target, etype, max_depth)
Path_exists(f) ==
    /\ pq.pc = "search" /\ pq.op = "exists"
    /\ IF f
       THEN pq' = [pq EXCEPT !.pc = "done", !.calls = BumpP(@, "has_path"),
                             !.out = RaisedP("E:has_path")]
       ELSE pq' = [pq EXCEPT !.pc = "done", !.calls = BumpP(@, "has_path"),
                             !.out = ReturnExists(has_path(store, pq.source, pq.target,
                                                           pq.edge_type, pq.max_depth))]
    /\ UNCHANGED <<store, mutation, traversal>>

\* the caller lets go of the path builder and of what the query returned
Path_drop ==
    /\ pq.pc = "done"
    /\ pq' = NoPath
    /\ UNCHANGED <<store, mutation, traversal>>

\* ---------------------------------------------- path queries: specification
\* The store is TravStore over one of PathGraphs; the nodes of Untyped were
\* created with a key of no declared node type, so get_node_def answers None
\* for them.
UntypedStore(edges, untyped) ==
    [TravStore(edges) EXCEPT
        !.nodes = [i \in TravNodes |-> IF i \in untyped THEN "misc:" \o ToString(i)
                                       ELSE NodeKey(i)]]
PathGraphs ==
    {{<<1, KnowsId, 2>>, <<2, KnowsId, 3>>, <<1, FollowsId, 3>>},
     {<<1, KnowsId, 2>>, <<1, KnowsId, 3>>, <<2, KnowsId, 3>>}}
Depths == {NoDepth} \cup (1 .. MaxDepth)
Directions == {"out", "in", "both"}

\* the engine holds st, no edge exists twice, and no builder is in use
InitStore(st) ==
    /\ store = st
    /\ parallel = {}
    /\ NoBuilder
    /\ nextId = MaxId + 3
    /\ txOpen = FALSE
    /\ snap = EmptyStore
    /\ pc = "idle"
    /\ op = "none"
    /\ single = FALSE
    /\ sel = [id |-> NoId, key |-> NoKey]
    /\ target = NoId
    /\ ends = <<NoId, NoId>>
    /\ keysIn = <<>>
    /\ item = EmptyFn
    /\ results = <<>>
    /\ err = ""
    /\ out = NoOut
    /\ calls = NoCalls
    /\ pre = EmptyStore
    /\ prevDel = NoKey

InitPath ==
    \E g \in PathGraphs : \E untyped \in {{}, {2}} : InitStore(UntypedStore(g, untyped))

NextPath ==
    \/ \E source \in {1, 3} : Path_new(source)
    \/ \E node \in {1, 3, MaxId + 2} : Path_to(node)
    \/ Path_via(KnowsId)
    \/ \E depth \in Depths \ {NoDepth} : Path_max_depth(depth)
    \/ \E dir \in Directions : Path_direction(dir)
    \/ Path_with_props
    \/ \E name \in PathOps : \E f \in BOOLEAN : Path_start(name, f)
    \/ \E w \in Weights : \E f \in BOOLEAN : Path_search(w, f)
    \/ \E f \in PathFaults : Path_node(f)
    \/ Path_return
    \/ \E f \in BOOLEAN : Path_exists(f)
    \/ Path_drop

SpecPath == InitPath /\ [][NextPath]_vars

\* -------------------------------------------------- scenario: specification
\* Nodes A, B, C (1, 2, 3) have been inserted and A -knows-> B, A -knows-> C
\* linked.  from(A).out(knows) traversals, deletes of B and C by id, and path
\* queries from A to C via knows within depth 1 interleave call by call.
ScenarioGraph == {<<1, KnowsId, 2>>, <<1, KnowsId, 3>>}
InitScenario == InitStore(TravStore(ScenarioGraph))

NextScenario ==
    \/ Trav_from(<<Held(1)>>)
    \/ Trav_out(KnowsId)
    \/ \E top \in {"count", "ids"} : Trav_terminal(top)
    \/ \E top \in {"count", "ids"} : Trav_again(top)
    \/ Trav_drop
    \/ (pq.pc \in {"none", "built", "done"} /\ DeleteOps({2, 3}, {NoKey}))
    \/ Forget
    \/ Path_new(1)
    \/ Path_to(3)
    \/ Path_via(KnowsId)
    \/ Path_max_depth(1)
    \/ \E f \in BOOLEAN : Path_start("find", f)
    \/ \E w \in Weights : \E f \in BOOLEAN : Path_search(w, f)
    \/ \E f \in PathFaults : Path_node(f)
    \/ Path_return
    \/ Path_drop

SpecScenario == InitScenario /\ [][NextScenario]_vars

\* ------------------------------------- traversal over nodes of no node type
\* Traversals of the first of Graphs where node 2 may have a key of no
\* declared node type: get_node_def answers None for it.
InitUntyped ==
    \E untyped \in {{}, {2}} :
        InitStore(UntypedStore({<<1, KnowsId, 2>>, <<1, KnowsId, 3>>, <<2, KnowsId, 3>>},
                               untyped))

NextUntyped ==
    \/ \E starts \in {<<Held(1)>>, <<Held(3)>>} : Trav_from(starts)
    \/ BuilderOps
    \/ \E top \in TerminalOps : Trav_terminal(top)
    \/ Trav_drop

SpecUntyped == InitUntyped /\ [][NextUntyped]_vars

\* ------------------------------------------------ reads: specification
\* One traversal or one path query at a time on the first of Graphs, each
\* engine and resolver call of it failing or not, between deletes of node 2.
NextReads ==
    \/ (pq.pc = "none" /\ \E starts \in {<<Held(1)>>, <<Held(1), Held(2)>>} : Trav_from(starts))
    \/ Trav_out(KnowsId)
    \/ Trav_both(NoId)
    \/ Trav_with_props
    \/ Trav_where_node("has_age")
    \/ \E top \in TerminalOps : Trav_terminal(top)
    \/ \E top \in TerminalOps : Trav_fails(top)
    \/ Trav_drop
    \/ (tpc = "none" /\ Path_new(1))
    \/ Path_to(3)
    \/ Path_via(KnowsId)
    \/ Path_with_props
    \/ \E name \in PathOps : \E f \in BOOLEAN : Path_start(name, f)
    \/ \E w \in Weights : \E f \in BOOLEAN : Path_search(w, f)
    \/ \E f \in PathFaults : Path_node(f)
    \/ Path_return
    \/ \E f \in BOOLEAN : Path_exists(f)
    \/ Path_drop
    \/ (tpc = "none" /\ pq.pc = "none" /\ DeleteOps({2}, {NoKey}))
    \/ Forget

SpecReads == InitFresh /\ [][NextReads]_vars

\* ------------------------------------------------------------------ claims
CallEnded == pc = "done"
\* begin was issued by the ended call and did not raise
BeginSucceeded == calls["begin"] = 1 /\ ~(out.kind = "raised" /\ out.err = "E:begin")

C2_OriginalFailureReachesCaller ==
    (CallEnded /\ err # "") => (calls["rollback"] = 1 /\ out = Raised(err))

C4_MissingKeyFailsBeforeEngine ==
    (CallEnded /\ op = "insert" /\ NoKey \in Range(keysIn)) =>
        (out = Raised("ValueError:key") /\ calls = NoCalls)

\* C5 (as stated): delete returns true only if the node existed when the call
\* started and is gone afterwards; when the selector names no existing node
\* (unresolved key, or an id no node has) it returns false and changes nothing.
C5_DeleteResult ==
    (CallEnded /\ op = "delete" /\ out.kind = "returned") =>
        /\ out.b => (target \in DOMAIN pre.nodes /\ target \notin DOMAIN store.nodes)
        /\ resolve_where(pre, sel.id, sel.key) \notin DOMAIN pre.nodes =>
               (out = ReturnBool(FALSE) /\ store = pre)

\* C6: once a delete of an existing node has returned true, the key of that
\* node does not resolve through get_node_by_key; and the next call, when it is
\* a delete by that key whose lookup the engine answers, returns false without
\* issuing begin and without raising.
C6_DeletedKeyIsGone ==
    /\ (CallEnded /\ op = "delete" /\ out = ReturnBool(TRUE) /\ target \in DOMAIN pre.nodes) =>
           get_node_by_key(store, pre.nodes[target]) = NoId
    /\ (CallEnded /\ op = "delete" /\ prevDel # NoKey
           /\ sel = [id |-> NoId, key |-> prevDel] /\ out.err # "E:get_node_by_key") =>
           (out = ReturnBool(FALSE) /\ calls["begin"] = 0 /\ store = pre)

\* C6 witness: the delete that follows a successful delete of user:a, by the
\* key user:a, has ended after one lookup.
C6_Witness ==
    /\ CallEnded /\ op = "delete"
    /\ prevDel = key_fn("a") /\ sel = [id |-> NoId, key |-> key_fn("a")]
    /\ calls["get_node_by_key"] = 1
    /\ out = ReturnBool(FALSE)

\* C7 (as stated): update and delete by selector given neither id nor key, or
\* given both, end with the validation error; an update whose key does not
\* resolve ends with the not-found error; in each case no begin and no write.
C7_ExactlyOneSelector ==
    (CallEnded /\ op \in {"update", "delete"}) =>
        /\ ((sel.id = NoId) = (sel.key = NoKey)) =>
               (out = Raised("ValueError:where") /\ calls = NoCalls /\ store = pre)
        /\ (op = "update" /\ sel.id = NoId /\ sel.key # NoKey
               /\ get_node_by_key(pre, sel.key) = NoId /\ out.err # "E:get_node_by_key") =>
               (out = Raised("ValueError:notfound") /\ calls["begin"] = 0 /\ store = pre)

\* the handles an ended insert has returned, and the field just reached by a step
Returned(name) == CallEnded /\ op = name /\ out.kind = "returned"
NewField == CHOOSE n \in DOMAIN item' \ DOMAIN item : TRUE
DeclaredNode(d) == {n \in DOMAIN d : props_get(NodePropTypes, n) # ""}
DeclaredEdge(d) == {n \in DOMAIN d : props_get(EdgePropTypes, n) # ""}

\* C8: in an insert, reaching a field whose value is null issues no
\* set_node_prop (and no other engine call); once the insert has committed,
\* every null field of every record is absent on the node created for that
\* record, and no property of that node holds a null value.
C8_InsertNullWritesNothing ==
    /\ [][(pc = "ins_props" /\ DOMAIN item' # DOMAIN item /\ item'[NewField] = None) =>
              (calls' = calls /\ store' = store)]_vars
    /\ [](Returned("insert") =>
              \A i \in DOMAIN results :
                  /\ \A n \in DOMAIN results[i].props :
                         results[i].props[n] = None =>
                             <<results[i].id, n>> \notin DOMAIN store.nprops
                  /\ \A x \in DOMAIN store.nprops :
                         x[1] = results[i].id => store.nprops[x] # PropValue_null)

\* C8 witness: a committed insert of one record with a null declared field and
\* a non-null declared field; the node has the second property only.
C8_Witness ==
    /\ Returned("insert")
    /\ Len(results) = 1
    /\ DOMAIN results[1].props = {"name", "age"}
    /\ results[1].props["name"] = None /\ results[1].props["age"] = I7
    /\ calls["set_node_prop"] = 1
    /\ <<results[1].id, "age">> \in DOMAIN store.nprops
    /\ <<results[1].id, "name">> \notin DOMAIN store.nprops

\* what an update that went through leaves of the properties: those of the
\* declared null fields removed, those of the declared non-null fields holding
\* the encoded value, every other property as it was
Updated(props, types, prefix, d) ==
    LET decl == {n \in DOMAIN d : props_get(types, n) # ""}
        del == {prefix \o <<n>> : n \in {m \in decl : d[m] = None}}
        put == {n \in decl : d[n] # None}
        name(x) == x[Len(x)]
    IN [x \in (DOMAIN props \ del) \cup {prefix \o <<n>> : n \in put} |->
            IF x \in {prefix \o <<n>> : n \in put}
            THEN to_prop_value(types[name(x)], d[name(x)]).pv
            ELSE props[x]]

\* C9: an update by selector or by handle of an existing node, and an edge
\* update of an existing edge, that went through issued one property delete
\* per declared null field and one property write per declared non-null field;
\* afterwards the null fields' properties are absent, the non-null fields hold
\* the new value, and nothing else in the store has changed.
C9_UpdateNullDeletes ==
    /\ (CallEnded /\ op \in {"update", "update_ref"} /\ out.kind = "returned"
           /\ target \in DOMAIN pre.nodes) =>
           /\ calls["delete_node_prop"] = Cardinality({n \in DeclaredNode(item) : item[n] = None})
           /\ calls["set_node_prop"] = Cardinality({n \in DeclaredNode(item) : item[n] # None})
           /\ store = [pre EXCEPT !.nprops =
                           Updated(@, NodePropTypes, <<target>>, item)]
    /\ (Returned("update_edge") /\ <<ends[1], KnowsId, ends[2]>> \in pre.edges) =>
           /\ calls["delete_edge_prop"] = Cardinality({n \in DeclaredEdge(item) : item[n] = None})
           /\ calls["set_edge_prop"] = Cardinality({n \in DeclaredEdge(item) : item[n] # None})
           /\ store = [pre EXCEPT !.eprops =
                           Updated(@, EdgePropTypes, <<ends[1], KnowsId, ends[2]>>, item)]

\* C9 witness: an update by selector of node 1, which had name and age, with
\* age = null and name = 7 went through: age is absent, name holds "7".
C9_Witness ==
    /\ Returned("update") /\ target = 1
    /\ <<1, "age">> \in DOMAIN pre.nprops /\ pre.nprops[<<1, "name">>].val = "a"
    /\ item = [name |-> I7, age |-> None]
    /\ <<1, "age">> \notin DOMAIN store.nprops
    /\ store.nprops[<<1, "name">>] = [tag |-> "string", val |-> "7"]
    /\ store.eprops = pre.eprops /\ store.nodes = pre.nodes

\* C10: a values_many insert that went through returns a sequence with one
\* handle per record, the i-th handle carrying the key of the i-th record and
\* an id of its own; a values insert returns one handle, not a sequence.
C10_HandlesInInputOrder ==
    Returned("insert") =>
        /\ out.shape = (IF single THEN "handle" ELSE "list")
        /\ Len(out.hs) = Len(keysIn)
        /\ \A i \in DOMAIN out.hs : out.hs[i].key = key_fn(keysIn[i])
        /\ \A i, j \in DOMAIN out.hs : out.hs[i].id = out.hs[j].id => i = j

\* C10 witness: a batch of two records, keys b then a, has returned two
\* handles, the first for user:b and the second for user:a.
C10_Witness ==
    /\ Returned("insert") /\ ~single
    /\ keysIn = <<"b", "a">>
    /\ out.shape = "list" /\ Len(out.hs) = 2
    /\ store.nodes[out.hs[1].id] = key_fn("b")
    /\ store.nodes[out.hs[2].id] = key_fn("a")

\* C11: every handle an insert returns carries the key key_fn(selector) of its
\* record; that key is the one create_node was called with (the node stored
\* under the handle's id has it) and the id is the one create_node answered
\* for that record (ids are handed out in record order within the call).
C11_HandleKeyIsFormattedSelector ==
    Returned("insert") =>
        \A i \in DOMAIN out.hs :
            /\ keysIn[i] \in Selectors
            /\ out.hs[i].key = key_fn(keysIn[i])
            /\ out.hs[i].id \in DOMAIN store.nodes \ DOMAIN pre.nodes
            /\ store.nodes[out.hs[i].id] = out.hs[i].key
            /\ out.hs[i].id = nextId - 1 - (Len(out.hs) - i)

\* C11 witness: a single insert with selector b has returned the handle of a
\* new node whose key is user:b.
C11_Witness ==
    /\ Returned("insert") /\ single
    /\ keysIn = <<"b">>
    /\ out.hs[1].key = "user:b"
    /\ calls["create_node"] = 1
    /\ store.nodes[out.hs[1].id] = "user:b"

\* the edge a link / unlink / edge update call is about
TheEdge == <<ends[1], KnowsId, ends[2]>>

\* what a link that went through leaves of the edge properties: the declared
\* non-null fields hold the encoded value, every other property is as it was
Linked(props, types, prefix, d) ==
    LET put == {n \in DOMAIN d : props_get(types, n) # "" /\ d[n] # None}
        name(x) == x[Len(x)]
    IN [x \in DOMAIN props \cup {prefix \o <<n>> : n \in put} |->
            IF x \in {prefix \o <<n>> : n \in put}
            THEN to_prop_value(types[name(x)], d[name(x)]).pv
            ELSE props[x]]

C13_VectorFailsBeforeEngine ==
    /\ (CallEnded /\ op \in {"insert", "update", "update_ref"}
           /\ \E n \in DOMAIN item : props_get(NodePropTypes, n) = "vector" /\ item[n] # None) =>
           out.kind = "raised"
    /\ (CallEnded /\ out = Raised("ValueError:vector")) => calls = NoCalls

\* the builders that walk a dict of fields, and the type each one consults
FieldOps == {"insert", "update", "update_ref", "link", "update_edge"}
TypesOf(o) == IF o \in {"link", "update_edge"} THEN EdgePropTypes ELSE NodePropTypes

\* C14: in insert, update, update by handle, link and edge update, reaching a
\* field whose name the type does not declare issues no engine call and no
\* property-key resolution, raises nothing and leaves the loop where it was,
\* so the remaining fields are processed; a call that went through has issued
\* one resolution per declared field it wrote or deleted, none for the others.
C14_UndeclaredFieldIgnored ==
    /\ [][(op \in FieldOps /\ op' = op /\ DOMAIN item' # DOMAIN item /\ DOMAIN item \subseteq DOMAIN item'
              /\ props_get(TypesOf(op), NewField) = "") =>
              (calls' = calls /\ engine' = engine /\ pc' = pc /\ err' = err /\ out' = out)]_vars
    /\ []((CallEnded /\ op \in FieldOps /\ out.kind = "returned" /\ op # "insert") =>
              calls["resolve_prop_key_id"] =
                  Cardinality({n \in DOMAIN item : props_get(TypesOf(op), n) # ""
                                  /\ (op = "link" => item[n] # None)}))

\* C14 witness: an update by handle given zz = 7 and age = 7 went through with
\* one resolution and one write: age is stored, zz caused nothing.
C14_Witness ==
    /\ Returned("update_ref") /\ target \in DOMAIN pre.nodes
    /\ item = [zz |-> I7, age |-> I7]
    /\ calls["resolve_prop_key_id"] = 1 /\ calls["set_node_prop"] = 1
    /\ DOMAIN store.nprops = {<<target, "age">>}

\* a terminal operation on the traversal builder has returned
Ran(tops) == tout.kind = "returned" /\ tout.op \in tops

\* C15 (as stated): a traversal with zero steps and no predicate returns, for
\* every load strategy, exactly the start handles from to_list and iteration
\* (same handles, same keys, same property maps, same order) and the first of
\* them from first, whatever the store holds.
C15_ZeroStepsReturnStartHandles ==
    (Ran({"to_list", "iter", "first"}) /\ steps = <<>> /\ node_filter = NoFilter) =>
        tout.hs = (IF tout.op = "first" THEN SubSeq(start_nodes, 1, 1) ELSE start_nodes)

\* the nodes one step leads to from the nodes of S, and the nodes a step list
\* leads to, read off the edges of the store
StepSet(st, step, S) ==
    LET es == {e \in st.edges : step.edge = NoId \/ e[2] = step.edge}
        outs == {e[3] : e \in {x \in es : x[1] \in S}}
        ins == {e[1] : e \in {x \in es : x[3] \in S}}
    IN IF step.type = "out" THEN outs ELSE IF step.type = "in" THEN ins ELSE outs \cup ins

RECURSIVE ReachSet(_, _, _)
ReachSet(st, S, ss) ==
    IF ss = <<>> THEN S ELSE ReachSet(st, StepSet(st, Head(ss), S), Tail(ss))

Reached == ReachSet(tout.st, Range(StartIds(start_nodes)), steps)
NoDup(q) == \A i, j \in DOMAIN q : q[i] = q[j] => i = j
HandleIds(hs) == [i \in DOMAIN hs |-> hs[i].id]

\* C16: for a traversal with at least one step, ids() lists each node the
\* steps lead to exactly once, to_list() and iteration hold at most one handle
\* per node (exactly one per node reached when there is no predicate), and
\* count() without a predicate is the number of distinct nodes reached: over
\* parallel edges, from two frontier members and from a start handle given twice.
C16_FrontierHasNoDuplicates ==
    steps # <<>> =>
        /\ Ran({"ids"}) => (NoDup(tout.ids) /\ Range(tout.ids) = Reached)
        /\ Ran({"to_list", "iter"}) =>
               /\ NoDup(HandleIds(tout.hs))
               /\ node_filter = NoFilter => Range(HandleIds(tout.hs)) = Reached
        /\ (Ran({"count"}) /\ node_filter = NoFilter) => tout.n = Cardinality(Reached)

\* C16 witness: out(knows) from node 1, whose edge to node 2 exists twice, so
\* that the engine lists three neighbors; ids() has returned two identifiers.
C16_Witness ==
    /\ Ran({"ids"})
    /\ start_nodes = <<Held(1)>> /\ steps = <<TraversalStep("out", KnowsId)>>
    /\ <<1, KnowsId, 2>> \in parallel
    /\ traverse_out(store, parallel, 1, KnowsId) = <<2, 2, 3>>
    /\ tout.ids = <<2, 3>>

\* what ids() and to_list() give for the one-step traversal of the given type
\* from the builder's start nodes, on the store the last terminal operation
\* read and with the builder's edge type, predicate and strategy
OneHop(type) == <<TraversalStep(type, steps[1].edge)>>
IdsOf(type) ==
    Range(execute_fast(tout.st, parallel, StartIds(start_nodes), OneHop(type)))
ListOf(type) ==
    Range(HandleIds(execute(tout.st, parallel, start_nodes, OneHop(type), node_filter,
                            prop_strategy, <<>>)))

\* C17: for a one-step both(edge) traversal, with or without an edge type,
\* the identifiers of ids(), the handles of to_list() and the number count()
\* returns are those of the union of what out(edge) and in_(edge) produce from
\* the same start nodes on the same store.
C17_BothIsUnionOfOutAndIn ==
    (Len(steps) = 1 /\ steps[1].type = "both") =>
        /\ Ran({"ids"}) => Range(tout.ids) = IdsOf("out") \cup IdsOf("in")
        /\ Ran({"to_list"}) => Range(HandleIds(tout.hs)) = ListOf("out") \cup ListOf("in")
        /\ (Ran({"count"}) /\ node_filter = NoFilter) =>
               tout.n = Cardinality(IdsOf("out") \cup IdsOf("in"))

\* C17 witness: both(knows) from node 1, which has an edge to node 2 and an
\* edge from node 3; count() has returned 2.
C17_Witness ==
    /\ Ran({"count"}) /\ node_filter = NoFilter
    /\ start_nodes = <<Held(1)>> /\ steps = <<TraversalStep("both", KnowsId)>>
    /\ IdsOf("out") = {2} /\ IdsOf("in") = {3}
    /\ tout.n = 2

\* what _execute yields on the store the last terminal operation read when
\* the builder's predicate is applied to handles loaded with strategy All
WithAll == execute(tout.st, parallel, start_nodes, steps, node_filter, Strategy_all, <<>>)

\* C18 (as stated): once a predicate is set on the builder, in whatever order
\* where_node, load_props and with_props were called, the strategy the
\* traversal executes with is All, and to_list, iteration and first return
\* the handles that pass the predicate when every stored declared property
\* is loaded, with those properties in their property maps.
C18_PredicateForcesAll ==
    (Ran({"to_list", "iter", "first"}) /\ node_filter # NoFilter) =>
        /\ prop_strategy = Strategy_all
        /\ tout.hs = (IF tout.op = "first" /\ WithAll # <<>> THEN <<Head(WithAll)>> ELSE WithAll)

RECURSIVE HopCount(_, _, _, _, _)
HopCount(st, n, S, ss, dir) ==
    IF ss = <<>> THEN 0
    ELSE (IF Head(ss).type \in {dir, "both"} THEN n ELSE 0)
         + HopCount(st, Cardinality(StepSet(st, Head(ss), S)), StepSet(st, Head(ss), S),
                    Tail(ss), dir)
Hops(dir) == HopCount(tout.st, Len(start_nodes), Range(StartIds(start_nodes)), steps, dir)

\* C20: no engine or resolver call is issued for a traversal builder before a
\* terminal operation runs on it, and from_, out, in_, both, with_props,
\* load_props and where_node leave the store alone; every terminal operation,
\* the first and each later one on the same builder, reads the store as it is
\* when it is called and executes the whole step list from the start nodes:
\* ids, to_list, iteration, keys and count give the nodes the steps lead to on
\* that store, and ids and keys issue the traverse calls of one execution.
C20_TerminalExecutesFresh ==
    /\ []((tpc = "built" /\ tout.kind = "none") => tcalls = NoTCalls)
    /\ [][/\ (tpc' = "built" /\ tout'.kind = "none") => (store' = store /\ tcalls' = NoTCalls)
          /\ (tout' # tout /\ tout'.kind = "returned") => (tout'.st = store /\ store' = store)]_vars
    /\ [](/\ Ran({"ids"}) => (NoDup(tout.ids) /\ Range(tout.ids) = Reached)
          /\ Ran({"ids", "keys"}) =>
                 (tcalls["traverse_out"] = Hops("out") /\ tcalls["traverse_in"] = Hops("in"))
          /\ Ran({"keys"}) => Len(tout.ks) = Cardinality(Reached \cap DOMAIN tout.st.nodes)
          /\ (Ran({"to_list", "iter"}) /\ node_filter = NoFilter) =>
                 Range(HandleIds(tout.hs)) = Reached \cap DOMAIN tout.st.nodes
          /\ (Ran({"count"}) /\ node_filter = NoFilter) => tout.n = Cardinality(Reached))

\* C20 witness: after a terminal operation had run, delete removed node 2
\* (user:b); ids() over out(knows) from node 1 then returned node 3 alone,
\* after one traverse_out call on the store without node 2.
C20_Witness ==
    /\ Ran({"ids"}) /\ pc = "idle"
    /\ start_nodes = <<Held(1)>> /\ steps = <<TraversalStep("out", KnowsId)>>
    /\ prevDel = key_fn("b") /\ 2 \notin DOMAIN store.nodes
    /\ tout.st = store
    /\ tout.ids = <<3>>
    /\ tcalls = [NoTCalls EXCEPT !["traverse_out"] = 1]

\* the nodes of Reached that the store holds and that pass the predicate of
\* the TraversalResult (n.age is not None) on the values the store holds
StoredAge(st, i) ==
    <<i, "age">> \in DOMAIN st.nprops /\ st.nprops[<<i, "age">>] # PropValue_null
Passing ==
    {i \in Reached \cap DOMAIN tout.st.nodes :
        res.node_filter = NoFilter \/ StoredAge(tout.st, i)}

\* C21: every terminal operation on a TraversalResult reads the store as it
\* is when it is called, whatever earlier terminal operations on the same
\* result found and whatever delete, link, unlink or property update was
\* committed (or rolled back) in between: ids gives the nodes the steps lead
\* to on that store, to_list, iteration, first and count give those of them
\* that pass the predicate on the stored values, and the handles carry the
\* stored key and, under a predicate, the stored age.
C21_ResultHoldsNoCache ==
    /\ [][(tout' # tout /\ tout'.kind = "returned") => (tout'.st = store /\ store' = store)]_vars
    /\ [](res.made =>
              /\ Ran({"ids"}) => (NoDup(tout.ids) /\ Range(tout.ids) = Reached)
              /\ Ran({"to_list", "iter"}) =>
                     (NoDup(HandleIds(tout.hs)) /\ Range(HandleIds(tout.hs)) = Passing)
              /\ Ran({"first"}) =>
                     (Range(HandleIds(tout.hs)) \subseteq Passing
                      /\ Len(tout.hs) = (IF Passing = {} THEN 0 ELSE 1))
              /\ Ran({"count"}) =>
                     tout.n = Cardinality(IF res.node_filter = NoFilter THEN Reached ELSE Passing)
              /\ Ran({"keys"}) => Len(tout.ks) = Cardinality(Reached \cap DOMAIN tout.st.nodes)
              /\ Ran({"to_list", "iter", "first"}) =>
                     \A i \in DOMAIN tout.hs :
                         /\ tout.hs[i].key = tout.st.nodes[tout.hs[i].id]
                         /\ res.node_filter # NoFilter =>
                                tout.hs[i].props["age"] =
                                    from_prop_value(tout.st.nprops[<<tout.hs[i].id, "age">>]))

\* C21 witness: the result of from(1).out(knows) gave node 2, then unlink of
\* 1 -knows-> 2 committed, then to_list() on the same result returned nothing.
C21_Witness ==
    /\ res.made /\ Ran({"to_list"})
    /\ steps = <<TraversalStep("out", KnowsId)>>
    /\ tseen = <<<<>>, <<2>>>>
    /\ 2 \in DOMAIN store.nodes /\ store.edges = {}
    /\ tout.st = store
    /\ tout.hs = <<>>

\* C27: find, find_weighted and exists on a path builder with no target raise
\* the validation error having issued no engine call and no edge-type
\* resolution, whatever via, max_depth, direction and with_props were set.
C27_NoTargetFailsBeforeEngine ==
    (pq.pc \in {"search", "nodes", "done"} /\ pq.target = NoId)
        => /\ pq.pc = "done"
           /\ pq.out = RaisedP("ValueError:target")
           /\ pq.calls = NoPCalls

C27_Witness ==
    /\ pq.pc = "done" /\ pq.op = "exists" /\ pq.target = NoId
    /\ pq.edge_type = KnowsId /\ pq.max_depth = 1 /\ pq.direction = "in" /\ pq.load_props
    /\ pq.out = RaisedP("ValueError:target")

\* the path the engine answers for the query the path builder holds
EnginePath ==
    find_path(store, pq.source, pq.target, pq.edge_type, pq.max_depth, pq.direction)
FoundPath ==
    /\ pq.pc = "done" /\ pq.op \in {"find", "find_weighted"}
    /\ pq.out.kind = "returned" /\ pq.out.found
PathIdsReturned == [i \in 1 .. Len(pq.out.nodes) |-> pq.out.nodes[i].id]

\* C28: a find or find_weighted that succeeds returns one handle per
\* identifier of the engine's path, in path order, source first and target
\* last.
C28_OneHandlePerPathId ==
    FoundPath => PathIdsReturned = EnginePath

\* the same when every node of the path is of a declared node type
C28_TypedPathsOnly ==
    (FoundPath /\ \A i \in 1 .. Len(EnginePath) : get_node_def(store, EnginePath[i]))
        => PathIdsReturned = EnginePath

\* C29: exists returns a boolean only: it issues one has_path call, no path
\* search and no node type, key or property lookup, and builds no handle,
\* also when with_props was set.
C29_ExistsBuildsNoHandles ==
    (pq.pc = "done" /\ pq.op = "exists" /\ pq.out.kind = "returned")
        => /\ pq.out = ReturnExists(has_path(store, pq.source, pq.target, pq.edge_type,
                                             pq.max_depth))
           /\ pq.nodes = <<>>
           /\ pq.calls = [NoPCalls EXCEPT
                             !["has_path"] = 1,
                             !["resolve_etype_id"] = IF pq.edge_type = NoId THEN 0 ELSE 1]

C29_Witness ==
    /\ pq.pc = "done" /\ pq.op = "exists" /\ pq.load_props
    /\ pq.out = ReturnExists(TRUE)
    /\ pq.source = 1 /\ pq.target = 3 /\ pq.edge_type = KnowsId

PathReturned ==
    /\ pq.pc = "done" /\ pq.op \in {"find", "find_weighted"}
    /\ pq.out.kind = "returned"

\* C30: the PathResult of the unweighted find has total weight 0 whatever
\* the engine answered, and a not-found PathResult of find or find_weighted
\* has found = false, no nodes and total weight 0, no handle having been
\* constructed.
C30_UnweightedWeightIsZero ==
    PathReturned
        => /\ pq.op = "find" => pq.out.total_weight = 0
           /\ EnginePath = <<>>
                  => /\ pq.out = ReturnPath(<<>>, FALSE, 0)
                     /\ pq.calls["get_node_def"] = 0 /\ pq.calls["get_node_key"] = 0
                     /\ pq.calls["get_node_prop"] = 0

\* the not-found half of C30 alone
C30_NotFoundIsEmpty ==
    (PathReturned /\ EnginePath = <<>>)
        => /\ pq.out = ReturnPath(<<>>, FALSE, 0)
           /\ pq.calls["get_node_def"] = 0 /\ pq.calls["get_node_key"] = 0
           /\ pq.calls["get_node_prop"] = 0

\* the two engine states of the scenario: before and after the delete of B
BeforeDelete == TravStore(ScenarioGraph)
AfterDelete == delete_node(TravStore(ScenarioGraph), 2)
FromAOutKnows ==
    /\ start_nodes = <<Held(1)>>
    /\ steps = <<TraversalStep("out", KnowsId)>>
FindAToC ==
    /\ pq.pc = "done" /\ pq.op = "find" /\ pq.out.kind = "returned"
    /\ pq.source = 1 /\ pq.target = 3 /\ pq.edge_type = KnowsId /\ pq.max_depth = 1

\* C22: with A, B, C inserted and A -knows-> B, A -knows-> C linked,
\* from(A).out(knows).count() is 2; once the delete of B has committed,
\* from(A).out(knows).ids() is exactly [C.id]; and find() from A to C via
\* knows with max depth 1 returns found = true with the handles of A and C.
C22_Scenario ==
    /\ (Ran({"count"}) /\ FromAOutKnows /\ tout.st = BeforeDelete) => tout.n = 2
    /\ (Ran({"ids"}) /\ FromAOutKnows /\ tout.st = AfterDelete) => tout.ids = <<3>>
    /\ (FindAToC /\ store \in {BeforeDelete, AfterDelete})
           => /\ pq.out.found
              /\ pq.out.nodes = <<NodeRef(1, NodeKey(1), EmptyFn), NodeRef(3, NodeKey(3), EmptyFn)>>

C22_Witness ==
    /\ store = AfterDelete /\ out = ReturnBool(TRUE)
    /\ Ran({"ids"}) /\ FromAOutKnows /\ tout.st = AfterDelete /\ tout.ids = <<3>>
    /\ FindAToC /\ pq.out.found /\ Len(pq.out.nodes) = 2

\* the first step of the scenario happens
C22_CountReached ==
    Ran({"count"}) /\ FromAOutKnows /\ tout.st = BeforeDelete /\ tout.n = 2

\* the frontier members of the last execution whose node type resolves
Resolved(st, q) == SelectSeq(q, LAMBDA id : get_node_def(st, id))
Frontier == execute_fast(tout.st, parallel, StartIds(start_nodes), steps)

\* C23: a frontier member whose node type cannot be resolved is left out of
\* what a traversal returns, without an error, by to_list, first, iteration,
\* count, ids and keys alike, on every execution path.
C23_UnresolvedMemberExcluded ==
    (tout.kind # "none" /\ steps # <<>>)
        => /\ tout.kind = "returned"
           /\ \A i \in 1 .. Len(tout.hs) : get_node_def(tout.st, tout.hs[i].id)
           /\ \A i \in 1 .. Len(tout.ids) : get_node_def(tout.st, tout.ids[i])
           /\ \A i \in 1 .. Len(tout.ks) : tout.ks[i] \in UserKeys
           /\ tout.op = "count" /\ node_filter = NoFilter
                  => tout.n = Len(Resolved(tout.st, Frontier))

\* the part of C23 that to_list, first and iteration do keep
C23_HandlesExcludeUnresolved ==
    (tout.kind # "none" /\ steps # <<>> /\ tout.op \in {"to_list", "first", "iter"})
        => /\ tout.kind = "returned"
           /\ \A i \in 1 .. Len(tout.hs) : get_node_def(tout.st, tout.hs[i].id)

\* C24: to_list, iteration and first on a traversal with at least one step,
\* no predicate and strategy None or Only of no names return handles with an
\* empty property map and issue no get_node_prop, get_node_key, traverse_out,
\* traverse_in or property-key call: only the batched id-and-key calls, one
\* per frontier member and direction at every step.
C24_FastPathHandlesNotLoaded ==
    (/\ Ran({"to_list", "iter", "first"})
     /\ steps # <<>> /\ node_filter = NoFilter
     /\ prop_strategy \in {Strategy_none, Strategy_only({})})
        => /\ \A i \in 1 .. Len(tout.hs) : tout.hs[i].props = EmptyFn
           /\ \A c \in {"get_node_prop", "get_node_key", "traverse_out", "traverse_in",
                         "resolve_prop_key_id"} : tcalls[c] = 0
           /\ tcalls["traverse_out_with_keys"] = Hops("out")
           /\ tcalls["traverse_in_with_keys"] = Hops("in")

C24_Witness ==
    /\ Ran({"to_list"}) /\ node_filter = NoFilter
    /\ prop_strategy = Strategy_only({})
    /\ start_nodes = <<Held(1)>>
    /\ steps = <<TraversalStep("out", KnowsId), TraversalStep("both", NoId)>>
    /\ tcalls["traverse_out_with_keys"] = 3 /\ tcalls["traverse_in_with_keys"] = 2
    /\ Len(tout.hs) >= 2

\* first-discovery order: the previous frontier is walked in order, each
\* member's neighbours in the order the engine returns them, outgoing before
\* incoming for a both step, and an id is kept where it first appears
Neighbours(st, step, id) ==
    (IF step.type \in {"out", "both"} THEN traverse_out(st, parallel, id, step.edge) ELSE <<>>)
    \o (IF step.type \in {"in", "both"} THEN traverse_in(st, parallel, id, step.edge) ELSE <<>>)
RECURSIVE NeighboursAll(_, _, _)
NeighboursAll(st, step, current) ==
    IF current = <<>> THEN <<>>
    ELSE Neighbours(st, step, Head(current)) \o NeighboursAll(st, step, Tail(current))
RECURSIVE KeepFirst(_, _)
KeepFirst(q, kept) ==
    IF q = <<>> THEN kept
    ELSE KeepFirst(Tail(q), IF Head(q) \in Range(kept) THEN kept ELSE Append(kept, Head(q)))
RECURSIVE Discovery(_, _, _)
Discovery(st, ss, current) ==
    IF ss = <<>> THEN current
    ELSE Discovery(st, Tail(ss), KeepFirst(NeighboursAll(st, Head(ss), current), <<>>))
FirstDiscovery == Discovery(tout.st, steps, StartIds(start_nodes))

\* C25: on every execution path the frontier is in first-discovery order, so
\* ids() and the ids of the handles of to_list() and iteration are that same
\* sequence.
C25_FirstDiscoveryOrder ==
    steps # <<>>
        => /\ Ran({"ids"}) => tout.ids = FirstDiscovery
           /\ (Ran({"to_list", "iter"}) /\ node_filter = NoFilter)
                  => HandleIds(tout.hs) = FirstDiscovery

\* the ids-with-keys path alone (no predicate, no properties to load)
C25_KeysPathInDiscoveryOrder ==
    (/\ steps # <<>> /\ Ran({"to_list", "iter"})
     /\ node_filter = NoFilter /\ ~needs_any_props(prop_strategy))
        => HandleIds(tout.hs) = FirstDiscovery

\* the same for traversals without a both step
C25_OneDirectionInDiscoveryOrder ==
    (steps # <<>> /\ \A i \in 1 .. Len(steps) : steps[i].type # "both")
        => /\ Ran({"ids"}) => tout.ids = FirstDiscovery
           /\ (Ran({"to_list", "iter"}) /\ node_filter = NoFilter)
                  => HandleIds(tout.hs) = FirstDiscovery

\* the calls of a terminal operation agree, name by name, with its trace
TraceMatchesCalls ==
    (tout.kind = "returned" /\ tout.st = store)
        => tcalls = calls_until(terminal_trace(tout.op, store, parallel, start_nodes, steps,
                                               node_filter, prop_strategy, <<>>),
                                Len(terminal_trace(tout.op, store, parallel, start_nodes, steps,
                                                   node_filter, prop_strategy, <<>>)))

\* the trace of the terminal operation that last ran, on the store it read
LastTrace ==
    terminal_trace(tout.op, tout.st, parallel, start_nodes, steps, node_filter,
                   prop_strategy, <<>>)
\* a path query that raised an engine error issued the failed call once, after
\* the calls that precede it, and none that follow it
PathFailedAt(c) ==
    /\ pq.out.err = "E:" \o c
    /\ pq.calls["resolve_etype_id"] = (IF pq.edge_type = NoId THEN 0 ELSE 1)
    /\ c = "resolve_etype_id"
           => \A d \in PCallNames \ {c} : pq.calls[d] = 0
    /\ c \in {"find_path_bfs", "find_path_dijkstra", "has_path"}
           => /\ pq.calls[c] = 1
              /\ \A d \in PCallNames \ {c, "resolve_etype_id"} : pq.calls[d] = 0
    /\ c = "get_node_key"
           => /\ pq.calls[c] = Len(pq.nodes) + 1
              /\ pq.calls["get_node_prop"] = pq.calls["resolve_prop_key_id"]
    /\ c = "get_node_prop"
           => /\ pq.calls["get_node_key"] = Len(pq.nodes) + 1
              /\ pq.calls[c] = Len(pq.nodes) * Cardinality(DOMAIN NodePropTypes) + 1
              /\ pq.calls["resolve_prop_key_id"] = pq.calls[c]

\* C26: the terminal operations of traversals and path queries never begin,
\* commit or roll back a transaction and never write; when one of their calls
\* fails, the caller gets that call's error, the failed call has been issued
\* once, and the operation issues no call after it.
C26_ReadsPropagateFailures ==
    /\ [][(tout' # tout \/ tcalls' # tcalls \/ pq' # pq) => UNCHANGED <<store, mutation>>]_vars
    /\ [](tout.kind = "raised"
              => \E k \in 1 .. Len(LastTrace) :
                     /\ tout.err = "E:" \o LastTrace[k]
                     /\ tcalls = calls_until(LastTrace, k))
    /\ []((pq.out.kind = "raised" /\ pq.target # NoId)
              => /\ pq.pc = "done"
                 /\ \E c \in PCallNames : PathFailedAt(c))
    /\ [][pq.pc = "done" => pq' = NoPath]_vars

C26_Witness ==
    /\ tout.kind = "raised" /\ tout.op = "to_list" /\ tout.err = "E:get_node_prop"
    /\ tcalls["traverse_out"] = 1 /\ tcalls["get_node_key"] = 1
    /\ tcalls["get_node_prop"] = 2
    /\ 2 \notin DOMAIN store.nodes

\* a path query fails in the middle of building its handles
C26_PathWitness ==
    /\ pq.pc = "done" /\ pq.out = RaisedP("E:get_node_prop")
    /\ Len(pq.nodes) = 1 /\ pq.calls["get_node_prop"] = 4

\* what count(), ids() and to_list() give for the builder's traversal on the
\* store the last terminal operation read
CountOn ==
    terminal("count", tout.st, parallel, start_nodes, steps, node_filter, prop_strategy,
             <<>>).out.n
IdsOn ==
    terminal("ids", tout.st, parallel, start_nodes, steps, node_filter, prop_strategy,
             <<>>).out.ids
ListOn ==
    terminal("to_list", tout.st, parallel, start_nodes, steps, node_filter, prop_strategy,
             <<>>).out.hs

\* C31: without a predicate, count(), the length of ids() and the length of
\* to_list() agree on the same engine state, for every step list and load
\* strategy, also when the node type of a frontier member does not resolve.
C31_CountIdsListAgree ==
    (tout.kind = "returned" /\ node_filter = NoFilter)
        => /\ tout.op = "count" => tout.n = CountOn
           /\ tout.op = "ids" => tout.ids = IdsOn
           /\ tout.op = "to_list" => tout.hs = ListOn
           /\ CountOn = Len(IdsOn)
           /\ Len(IdsOn) = Len(ListOn)

\* the same where every member of the frontier is of a declared node type
C31_AgreeWhenAllResolve ==
    (/\ tout.kind = "returned" /\ node_filter = NoFilter
     /\ \A i \in 1 .. Len(IdsOn) : get_node_def(tout.st, IdsOn[i]))
        => /\ CountOn = Len(IdsOn)
           /\ Len(IdsOn) = Len(ListOn)

\* what a terminal operation on the result of nodes() would return now
ResultOn(top) ==
    terminal(top, store, parallel, start_nodes, steps, res.node_filter, res.prop_strategy,
             <<>>).out
ResultKept == res.made /\ res'.made /\ store' = store

\* C32: the result of nodes() is a fixed query: while the store stays as it
\* is, no call on the originating builder (out, in_, both, with_props,
\* load_props, where_node) changes what a terminal operation on that result
\* returns.
C32_ResultIsFixed ==
    [][ResultKept => \A top \in TerminalOps : ResultOn(top)' = ResultOn(top)]_vars

\* the predicate and the strategy of the result are those at nodes()
C32_FilterAndStrategyFixed ==
    [][ResultKept => (res'.node_filter = res.node_filter
                      /\ res'.prop_strategy = res.prop_strategy)]_vars

InsertReturned == pc = "done" /\ op = "insert" /\ out.kind = "returned"
\* the declared properties the engine holds for a node
WrittenNames(id) == {n \in DOMAIN NodePropTypes : <<id, n>> \in DOMAIN store.nprops}

\* C34: the property map of a handle that insert returns holds exactly the
\* declared properties that were written to the engine, with the supplied
\* values: no field whose value was null and no field the node type does not
\* declare.
C34_HandleHoldsWrittenProps ==
    InsertReturned
        => \A i \in 1 .. Len(out.hs) :
               /\ DOMAIN out.hs[i].props = WrittenNames(out.hs[i].id)
               /\ \A n \in DOMAIN out.hs[i].props : out.hs[i].props[n] # None

\* every written property is in the map with the supplied value
C34_WrittenPropsAreHeld ==
    InsertReturned
        => \A i \in 1 .. Len(out.hs) :
               \A n \in WrittenNames(out.hs[i].id) :
                   /\ n \in DOMAIN out.hs[i].props
                   /\ to_prop_value(props_get(NodePropTypes, n), out.hs[i].props[n]).pv
                          = store.nprops[<<out.hs[i].id, n>>]

\* record i of the executor still has its 'key' field: the loop of returning()
\* has not reached it
RecordHasKey(i) == i > Len(keysIn)
KeysSupplied == \A i \in 1 .. Len(keysIn) : keysIn[i] # NoKey

\* C33: insert leaves the caller's records as they were and can be run again
\* on the same executor: after returning() / execute() every record still has
\* its 'key', and a second call on records that were given keys does not
\* fail with the missing-key validation error.
C33_InsertKeepsRecords ==
    /\ InsertReturned => \A i \in 1 .. Len(out.hs) : RecordHasKey(i)
    /\ (pc = "done" /\ op = "insert_again" /\ KeysSupplied)
           => out # Raised("ValueError:key")

ExistsReturned == pq.pc = "done" /\ pq.op = "exists" /\ pq.out.kind = "returned"

\* C35: on the same builder configuration and engine state exists() answers
\* what find().found is: the direction given with direction() reaches the
\* engine from exists as it does from find.
C35_ExistsAgreesWithFind ==
    ExistsReturned => pq.out.b = (EnginePath # <<>>)

\* the two agree for the direction "out"
C35_AgreeOnOutgoing ==
    (ExistsReturned /\ pq.direction = "out") => pq.out.b = (EnginePath # <<>>)

KeysOn ==
    terminal("keys", tout.st, parallel, start_nodes, steps, node_filter, prop_strategy,
             <<>>).out.ks
KeysMatchHandles ==
    /\ Len(KeysOn) = Len(IdsOn)
    /\ \A i \in 1 .. Len(IdsOn) :
           \E j \in 1 .. Len(ListOn) : ListOn[j].id = IdsOn[i] /\ ListOn[j].key = KeysOn[i]

\* C36: keys() has one key per identifier of ids(), in the same order, and
\* each is the key of the handle to_list() returns for that identifier on
\* the same engine state, also for a node whose key lookup yields no key.
C36_KeysFollowIds ==
    (tout.kind = "returned" /\ node_filter = NoFilter)
        => /\ tout.op = "keys" => tout.ks = KeysOn
           /\ KeysMatchHandles

\* the same where every identifier of ids() is a node of a declared type
C36_KeysFollowResolvedIds ==
    (/\ tout.kind = "returned" /\ node_filter = NoFilter
     /\ \A i \in 1 .. Len(IdsOn) : get_node_def(tout.st, IdsOn[i]))
        => KeysMatchHandles

\* C37: deduplication is per hop only. ids() after at least one step lists,
\* without repetition, exactly the nodes the last step leads to from the
\* previous frontier, so a node of an earlier frontier or of the start list is
\* listed again when an edge leads back to it (with edges 1->2 and 2->1,
\* from(1).out().out() lists exactly 1), and the traversal issues one round of
\* traverse calls per step and no more, also on a cyclic graph.
C37_DedupIsPerHop ==
    (Ran({"ids"}) /\ steps # <<>>) =>
        /\ NoDup(tout.ids)
        /\ Range(tout.ids) = Reached
        /\ tcalls["traverse_out"] = Hops("out")
        /\ tcalls["traverse_in"] = Hops("in")
        /\ ( /\ {<<1, KnowsId, 2>>, <<2, KnowsId, 1>>} \subseteq tout.st.edges
             /\ start_nodes = <<Held(1)>>
             /\ steps = <<TraversalStep("out", KnowsId), TraversalStep("out", KnowsId)>> )
            => tout.ids = <<1>>

C37_Witness ==
    /\ Ran({"ids"})
    /\ {<<1, KnowsId, 2>>, <<2, KnowsId, 1>>} \subseteq tout.st.edges
    /\ start_nodes = <<Held(1)>>
    /\ steps = <<TraversalStep("out", KnowsId), TraversalStep("out", KnowsId)>>
    /\ tout.ids = <<1>>
    /\ tcalls["traverse_out"] = 2

\* the nodes whose record or properties the running call has changed so far
Touched ==
    {id \in DOMAIN pre.nodes \cup DOMAIN store.nodes :
        \/ (id \in DOMAIN pre.nodes) # (id \in DOMAIN store.nodes)
        \/ \E k \in DOMAIN pre.nprops \cup DOMAIN store.nprops :
              /\ k[1] = id
              /\ \/ (k \in DOMAIN pre.nprops) # (k \in DOMAIN store.nprops)
                 \/ k \in DOMAIN pre.nprops /\ pre.nprops[k] # store.nprops[k]}

\* C38: an update or delete given an id (alone or together with a key) selects
\* the node by that id, never calls get_node_by_key and changes no other node;
\* an update through a handle never calls get_node_by_key and changes no node
\* but the handle's.
C38_IdIsTheSelector ==
    /\ (op \in {"update", "delete"} /\ sel.id # NoId) =>
          /\ calls["get_node_by_key"] = 0
          /\ target = sel.id
          /\ Touched \subseteq {sel.id}
    /\ op = "update_ref" =>
          /\ calls["get_node_by_key"] = 0
          /\ Touched \subseteq {target}

\* an update given the id of one node and the key of another has written to
\* the node of the id
C38_Witness ==
    /\ Returned("update")
    /\ sel.id # NoId /\ truthy(sel.key)
    /\ get_node_by_key(pre, sel.key) \notin {NoId, sel.id}
    /\ calls["get_node_by_key"] = 0 /\ calls["set_node_prop"] = 1
    /\ Touched = {sel.id}

\* the engine writes a mutation call can issue
WriteCalls == {"create_node", "set_node_prop", "delete_node_prop", "delete_node",
               "add_edge", "delete_edge", "set_edge_prop", "delete_edge_prop"}

\* begin was issued and raised: no transaction is open although neither commit
\* nor rollback was called
BeginRaised ==
    calls["begin"] = 1 /\ ~txOpen /\ calls["commit"] = 0 /\ calls["rollback"] = 0

\* C39: when begin itself raises in a mutation call, the call has ended with
\* that failure, no commit, no rollback and no engine write was issued and the
\* store is as before the call; the except clause is entered, and rollback is
\* issued, only with the transaction of a successful begin and for a failure
\* raised after it.
C39_BeginFailurePropagates ==
    /\ BeginRaised =>
          /\ pc = "done" /\ out = Raised("E:begin")
          /\ \A w \in WriteCalls : calls[w] = 0
          /\ store = pre
    /\ (pc = "done" /\ out = Raised("E:begin")) => BeginRaised
    /\ pc = "except" => (txOpen /\ err \notin {"", "E:begin"})
    /\ calls["rollback"] > 0 => (calls["begin"] = 1 /\ err \notin {"", "E:begin"})

\* a link whose begin raised has ended: the edge type was resolved, begin was
\* the only engine call
C39_Witness ==
    /\ pc = "done" /\ op = "link" /\ out = Raised("E:begin")
    /\ calls = [NoCalls EXCEPT !["resolve_etype_id"] = 1, !["begin"] = 1]
    /\ store = pre /\ store.nodes # EmptyStore.nodes

====
